---- MODULE Spec2Model ----
(***************************************************************************)
(* A model of tomli/_parser.py (the TOML decoder `loads`).                 *)
(*                                                                         *)
(* Spec       : the statement driver at the level of statements.  A        *)
(*              statement is a syntactically well-formed `key = value`,    *)
(*              `[key]` or `[[key]]` line, i.e. what parse_key and         *)
(*              parse_key_value_pair hand to key_value_rule,               *)
(*              create_dict_rule and create_list_rule.  The state is the   *)
(*              State object of loads: out (NestedDict.dict), flags        *)
(*              (Flags._flags) and header_namespace.                       *)
(* SpecString : the string builders as functions of the text: a text       *)
(*              that opens a string is normalised as loads does and        *)
(*              handed to parse_value.  Characters are code points.        *)
(* SpecInline : the loop of parse_inline_table, one key/value pair a step, *)
(*              on its own NestedDict and Flags.                           *)
(* SpecLoads  : loads on a text, one step of its statement loop at a time: *)
(*              the text is parsed by parse_key, parse_key_value_pair and  *)
(*              parse_value and the rules of Spec act on what they return. *)
(* SpecDateTime : loads on a text that is one date-time value, as far as   *)
(*              parse_value; the patterns of tomli/_re.py are modelled by  *)
(*              the operators named after them.                            *)
(***************************************************************************)
EXTENDS Integers, Sequences, FiniteSets, TLC

VARIABLES
    out,               \* State.out.dict: the document tree built so far
    flags,             \* State.flags._flags: the trie of flags
    header_namespace,  \* State.header_namespace: the active namespace
    status,            \* how loads stands: "parsing", "returned" or the exception that left it
    doc,               \* the statements consumed so far, in order
    text,              \* the text given to loads, a sequence of code points
    sres,              \* SpecString: what parse_value made of it
    nested_dict,       \* SpecInline: nested_dict.dict of parse_inline_table
    local_flags,       \* SpecInline: flags._flags of parse_inline_table
    inl_status,        \* SpecInline: "open", "returned" or the exception raised
    inl_msg,           \* SpecInline: the message of the exception
    pairs,             \* SpecInline: the pairs read so far, each with the character after it
    position,          \* SpecLoads: pos of loads, its position in the text, from 0; at
                       \* "dict_header_end" and "list_header_end" pos of the header rule
    lpc                \* SpecLoads: where in its loop body loads stands

docvars == <<out, flags, header_namespace, status, doc>>

strvars == <<text, sres>>

inlvars == <<nested_dict, local_flags, inl_status, inl_msg, pairs>>

lexvars == <<position, lpc>>

vars == <<docvars, strvars, inlvars, lexvars>>

(***************************************************************************)
(* Values.  A Python value is a record tagged with its type: an int, a     *)
(* dict (items: a function from key strings to values) or a list (elems:   *)
(* a sequence of values).                                                  *)
(***************************************************************************)
EmptyDict == [k \in {} |-> 0]

IntVal(n) == [type |-> "int", val |-> n]

Dict(f) == [type |-> "dict", items |-> f]

List(s) == [type |-> "list", elems |-> s]

NoValue == [type |-> "none"]

NotParsed == [exc |-> "pending"]

ButLast(s) == SubSeq(s, 1, Len(s) - 1)

Last(s) == s[Len(s)]

(***************************************************************************)
(* class Flags                                                             *)
(***************************************************************************)
FROZEN == 0

EXPLICIT_NEST == 1

NewNode(fs) == [flags |-> fs, recursive_flags |-> {}, nested |-> EmptyDict]

\* unset_all emptying the two flag sets of the key and keeping the node (line 159)
RECURSIVE unset_all_flags_only(_, _)
unset_all_flags_only(cont, key) ==
    IF key[1] \notin DOMAIN cont
    THEN cont
    ELSE IF Len(key) = 1
         THEN [cont EXCEPT ![key[1]].flags = {}, ![key[1]].recursive_flags = {}]
         ELSE [cont EXCEPT ![key[1]].nested = unset_all_flags_only(@, Tail(key))]

RECURSIVE unset_all(_, _)
unset_all(cont, key) ==
    IF Len(key) = 1
    THEN [k \in DOMAIN cont \ {key[1]} |-> cont[k]]
    ELSE IF key[1] \notin DOMAIN cont
         THEN cont
         ELSE [cont EXCEPT ![key[1]].nested = unset_all(@, Tail(key))]

\* set_for_relative_key flagging the last segment of rel_key only
RECURSIVE set_for_last_segment(_, _, _, _)
set_for_last_segment(cont, head_key, rel_key, flag) ==
    IF Len(head_key) > 0
    THEN LET k == head_key[1]
             node == IF k \in DOMAIN cont THEN cont[k] ELSE NewNode({})
         IN  (k :> [node EXCEPT !.nested =
                       set_for_last_segment(@, Tail(head_key), rel_key, flag)]) @@ cont
    ELSE IF Len(rel_key) > 0
         THEN LET k == rel_key[1]
                  fs == IF Len(rel_key) = 1 THEN {flag} ELSE {}
                  node == IF k \in DOMAIN cont
                          THEN [cont[k] EXCEPT !.flags = @ \cup fs]
                          ELSE NewNode(fs)
              IN  (k :> [node EXCEPT !.nested =
                            set_for_last_segment(@, <<>>, Tail(rel_key), flag)]) @@ cont
         ELSE cont

RECURSIVE set_for_relative_key(_, _, _, _)
set_for_relative_key(cont, head_key, rel_key, flag) ==
    IF Len(head_key) > 0
    THEN LET k == head_key[1]
             node == IF k \in DOMAIN cont THEN cont[k] ELSE NewNode({})
         IN  (k :> [node EXCEPT !.nested =
                       set_for_relative_key(@, Tail(head_key), rel_key, flag)]) @@ cont
    ELSE IF Len(rel_key) > 0
         THEN LET k == rel_key[1]
                  node == IF k \in DOMAIN cont
                          THEN [cont[k] EXCEPT !.flags = @ \cup {flag}]
                          ELSE NewNode({flag})
              IN  (k :> [node EXCEPT !.nested =
                            set_for_relative_key(@, <<>>, Tail(rel_key), flag)]) @@ cont
         ELSE cont

\* set keeping every flag as a plain flag of the key, recursive or not (line 183)
RECURSIVE set_plain(_, _, _, _)
set_plain(cont, key, flag, recursive) ==
    LET k == key[1]
        node == IF k \in DOMAIN cont THEN cont[k] ELSE NewNode({})
    IN  IF Len(key) > 1
        THEN (k :> [node EXCEPT !.nested = set_plain(@, Tail(key), flag, recursive)]) @@ cont
        ELSE (k :> [node EXCEPT !.flags = @ \cup {flag}]) @@ cont

RECURSIVE set(_, _, _, _)
set(cont, key, flag, recursive) ==
    LET k == key[1]
        node == IF k \in DOMAIN cont THEN cont[k] ELSE NewNode({})
    IN  IF Len(key) > 1
        THEN (k :> [node EXCEPT !.nested = set(@, Tail(key), flag, recursive)]) @@ cont
        ELSE IF recursive
             THEN (k :> [node EXCEPT !.recursive_flags = @ \cup {flag}]) @@ cont
             ELSE (k :> [node EXCEPT !.flags = @ \cup {flag}]) @@ cont

\* is_ with the plain flags of the key's own node not looked at (line 199)
RECURSIVE is_own_recursive_only(_, _, _)
is_own_recursive_only(cont, key, flag) ==
    IF Len(key) = 0
    THEN FALSE
    ELSE IF Len(key) = 1
         THEN IF key[1] \in DOMAIN cont
              THEN flag \in cont[key[1]].recursive_flags
              ELSE FALSE
         ELSE IF key[1] \notin DOMAIN cont
              THEN FALSE
              ELSE IF flag \in cont[key[1]].recursive_flags
                   THEN TRUE
                   ELSE is_own_recursive_only(cont[key[1]].nested, Tail(key), flag)

\* is_ with the recursive flags of the prefixes not looked at (lines 193-194)
RECURSIVE is_no_ancestors(_, _, _)
is_no_ancestors(cont, key, flag) ==
    IF Len(key) = 0
    THEN FALSE
    ELSE IF Len(key) = 1
         THEN IF key[1] \in DOMAIN cont
              THEN flag \in cont[key[1]].flags \/ flag \in cont[key[1]].recursive_flags
              ELSE FALSE
         ELSE IF key[1] \notin DOMAIN cont
              THEN FALSE
              ELSE is_no_ancestors(cont[key[1]].nested, Tail(key), flag)

RECURSIVE is_(_, _, _)
is_(cont, key, flag) ==
    IF Len(key) = 0
    THEN FALSE
    ELSE IF Len(key) = 1
         THEN IF key[1] \in DOMAIN cont
              THEN flag \in cont[key[1]].flags \/ flag \in cont[key[1]].recursive_flags
              ELSE FALSE
         ELSE IF key[1] \notin DOMAIN cont
              THEN FALSE
              ELSE IF flag \in cont[key[1]].recursive_flags
                   THEN TRUE
                   ELSE is_(cont[key[1]].nested, Tail(key), flag)

(***************************************************************************)
(* class NestedDict.  get_or_create_nest returns a reference to a dict     *)
(* inside the tree; here it returns the exception raised (or "none"), the  *)
(* tree with the created tables (dict), the place of the dict reached      *)
(* (path: key strings, and after a key that holds a list the index of its  *)
(* last element) and that dict's items (nest).                             *)
(***************************************************************************)
\* get_or_create_nest entering the first element of a list, not the last
RECURSIVE get_or_create_nest_first(_, _, _)
get_or_create_nest_first(cont, key, access_lists) ==
    IF Len(key) = 0
    THEN [exc |-> "none", dict |-> cont, path |-> <<>>, nest |-> cont]
    ELSE LET k == key[1]
             cont1 == IF k \notin DOMAIN cont THEN (k :> Dict(EmptyDict)) @@ cont ELSE cont
             v == cont1[k]
         IN  IF access_lists /\ v.type = "list"
             THEN IF Len(v.elems) = 0
                  THEN [exc |-> "IndexError", dict |-> cont1, path |-> <<>>, nest |-> cont1]
                  ELSE IF v.elems[1].type # "dict"
                       THEN [exc |-> "KeyError", dict |-> cont1, path |-> <<>>, nest |-> cont1]
                       ELSE LET r == get_or_create_nest_first(v.elems[1].items, Tail(key),
                                                              access_lists)
                            IN  [exc |-> r.exc,
                                 dict |-> [cont1 EXCEPT ![k] =
                                              List([v.elems EXCEPT ![1] = Dict(r.dict)])],
                                 path |-> <<k, 1>> \o r.path,
                                 nest |-> r.nest]
             ELSE IF v.type # "dict"
                  THEN [exc |-> "KeyError", dict |-> cont1, path |-> <<>>, nest |-> cont1]
                  ELSE LET r == get_or_create_nest_first(v.items, Tail(key), access_lists)
                       IN  [exc |-> r.exc,
                            dict |-> [cont1 EXCEPT ![k] = Dict(r.dict)],
                            path |-> <<k>> \o r.path,
                            nest |-> r.nest]

RECURSIVE get_or_create_nest(_, _, _)
get_or_create_nest(cont, key, access_lists) ==
    IF Len(key) = 0
    THEN [exc |-> "none", dict |-> cont, path |-> <<>>, nest |-> cont]
    ELSE LET k == key[1]
             cont1 == IF k \notin DOMAIN cont THEN (k :> Dict(EmptyDict)) @@ cont ELSE cont
             v == cont1[k]
             n == Len(v.elems)
         IN  IF access_lists /\ v.type = "list"
             THEN IF n = 0
                  THEN [exc |-> "IndexError", dict |-> cont1, path |-> <<>>, nest |-> cont1]
                  ELSE IF v.elems[n].type # "dict"
                       THEN [exc |-> "KeyError", dict |-> cont1, path |-> <<>>, nest |-> cont1]
                       ELSE LET r == get_or_create_nest(v.elems[n].items, Tail(key), access_lists)
                            IN  [exc |-> r.exc,
                                 dict |-> [cont1 EXCEPT ![k] =
                                              List([v.elems EXCEPT ![n] = Dict(r.dict)])],
                                 path |-> <<k, n>> \o r.path,
                                 nest |-> r.nest]
             ELSE IF v.type # "dict"
                  THEN [exc |-> "KeyError", dict |-> cont1, path |-> <<>>, nest |-> cont1]
                  ELSE LET r == get_or_create_nest(v.items, Tail(key), access_lists)
                       IN  [exc |-> r.exc,
                            dict |-> [cont1 EXCEPT ![k] = Dict(r.dict)],
                            path |-> <<k>> \o r.path,
                            nest |-> r.nest]

\* nest[k] = value, for the dict that get_or_create_nest returned at `path`
RECURSIVE store(_, _, _, _)
store(cont, path, k, value) ==
    IF Len(path) = 0
    THEN (k :> value) @@ cont
    ELSE LET v == cont[path[1]]
         IN  IF v.type = "list"
             THEN [cont EXCEPT ![path[1]] =
                      List([v.elems EXCEPT ![path[2]] =
                               Dict(store(@.items, SubSeq(path, 3, Len(path)), k, value))])]
             ELSE [cont EXCEPT ![path[1]] = Dict(store(v.items, Tail(path), k, value))]

\* append_nest_to_list without the isinstance check: a value that is no list
\* is replaced by a list of one table
append_nest_unchecked(dict, key) ==
    LET r == get_or_create_nest(dict, ButLast(key), TRUE)
        last_key == Last(key)
    IN  IF r.exc # "none"
        THEN [exc |-> r.exc, dict |-> r.dict]
        ELSE IF last_key \in DOMAIN r.nest /\ r.nest[last_key].type = "list"
             THEN [exc |-> "none",
                   dict |-> store(r.dict, r.path, last_key,
                                  List(Append(r.nest[last_key].elems, Dict(EmptyDict))))]
             ELSE [exc |-> "none",
                   dict |-> store(r.dict, r.path, last_key, List(<<Dict(EmptyDict)>>))]

append_nest_to_list(dict, key) ==
    LET r == get_or_create_nest(dict, ButLast(key), TRUE)
        last_key == Last(key)
    IN  IF r.exc # "none"
        THEN [exc |-> r.exc, dict |-> r.dict]
        ELSE IF last_key \in DOMAIN r.nest
             THEN IF r.nest[last_key].type # "list"
                  THEN [exc |-> "KeyError", dict |-> r.dict]
                  ELSE [exc |-> "none",
                        dict |-> store(r.dict, r.path, last_key,
                                       List(Append(r.nest[last_key].elems, Dict(EmptyDict))))]
             ELSE [exc |-> "none",
                   dict |-> store(r.dict, r.path, last_key, List(<<Dict(EmptyDict)>>))]

(***************************************************************************)
(* The statements of a document.                                           *)
(***************************************************************************)
MaxStmts == 4

\* the keys of the statements: two sibling keys and a dotted key under one of them
Keys == {<<"a">>, <<"b">>, <<"a", "b">>}

Values == {IntVal(1), List(<<>>), List(<<Dict(EmptyDict)>>), Dict("b" :> IntVal(1))}

Stmt(rule, key, value) == [rule |-> rule, key |-> key, value |-> value]

\* the check dropped: a key is never seen as defined
is_defined_never(nest, key_stem) == FALSE

\* if key_stem in nest
is_defined(nest, key_stem) == key_stem \in DOMAIN nest

\* the try/except left out: the KeyError leaves as it is
NoExcept(exc) == exc

\* try: ... except KeyError: raise suffixed_err(...): a KeyError leaves as the
\* TOMLDecodeError, any other exception as itself
ExceptKeyError(exc) == IF exc = "KeyError" THEN "TOMLDecodeError" ELSE exc

Init ==
    /\ out = EmptyDict
    /\ flags = EmptyDict
    /\ header_namespace = <<>>
    /\ status = "parsing"
    /\ doc = <<>>
    /\ text = <<>>
    /\ sres = NotParsed
    /\ nested_dict = EmptyDict
    /\ local_flags = EmptyDict
    /\ inl_status = "none"
    /\ inl_msg = ""
    /\ pairs = <<>>
    /\ position = 0
    /\ lpc = "none"

create_dict_rule(key) ==
    /\ status = "parsing"
    /\ UNCHANGED <<strvars, inlvars>>
    /\ Len(doc) < MaxStmts
    /\ doc' = Append(doc, Stmt("create_dict", key, NoValue))
    /\ IF is_(flags, key, EXPLICIT_NEST) \/ is_(flags, key, FROZEN)
       THEN /\ status' = "TOMLDecodeError"
            /\ UNCHANGED <<out, flags, header_namespace>>
       ELSE LET r == get_or_create_nest(out, key, TRUE)
            IN  /\ flags' = set(flags, key, EXPLICIT_NEST, FALSE)
                /\ IF r.exc # "none"
                   THEN /\ status' = ExceptKeyError(r.exc)
                        /\ UNCHANGED <<out, header_namespace>>
                   ELSE /\ out' = r.dict
                        /\ header_namespace' = key
                        /\ UNCHANGED status

create_list_rule(key) ==
    /\ status = "parsing"
    /\ UNCHANGED <<strvars, inlvars>>
    /\ Len(doc) < MaxStmts
    /\ doc' = Append(doc, Stmt("create_list", key, NoValue))
    /\ IF is_(flags, key, FROZEN)
       THEN /\ status' = "TOMLDecodeError"
            /\ UNCHANGED <<out, flags, header_namespace>>
       ELSE LET r == append_nest_to_list(out, key)
            IN  /\ flags' = set(unset_all(flags, key), key, EXPLICIT_NEST, FALSE)
                /\ IF r.exc # "none"
                   THEN /\ status' = ExceptKeyError(r.exc)
                        /\ UNCHANGED <<out, header_namespace>>
                   ELSE /\ out' = r.dict
                        /\ header_namespace' = key
                        /\ UNCHANGED status

key_value_rule(key, value) ==
    /\ status = "parsing"
    /\ UNCHANGED <<strvars, inlvars>>
    /\ Len(doc) < MaxStmts
    /\ doc' = Append(doc, Stmt("key_value", key, value))
    /\ UNCHANGED header_namespace
    /\ LET key_parent == ButLast(key)
           key_stem == Last(key)
           abs_key_parent == header_namespace \o key_parent
           abs_key == header_namespace \o key
           flags1 == set_for_relative_key(flags, header_namespace, key, EXPLICIT_NEST)
           r == get_or_create_nest(out, abs_key_parent, TRUE)
       IN  IF is_(flags, abs_key_parent, FROZEN)
           THEN /\ status' = "TOMLDecodeError"
                /\ UNCHANGED <<out, flags>>
           ELSE IF r.exc # "none"
                THEN /\ status' = ExceptKeyError(r.exc)
                     /\ flags' = flags1
                     /\ UNCHANGED out
                ELSE IF is_defined(r.nest, key_stem)
                     THEN /\ status' = "TOMLDecodeError"
                          /\ flags' = flags1
                          /\ UNCHANGED out
                     ELSE /\ flags' = IF value.type \in {"dict", "list"}
                                      THEN set(flags1, abs_key, FROZEN, TRUE)
                                      ELSE flags1
                          /\ out' = store(r.dict, r.path, key_stem, value)
                          /\ UNCHANGED status

\* end of input: loads leaves its loop and returns state.out.dict
loads_return ==
    /\ status = "parsing"
    /\ status' = "returned"
    /\ UNCHANGED <<out, flags, header_namespace, doc, strvars, inlvars, lexvars>>

Next ==
    \/ \E key \in Keys : create_dict_rule(key) /\ UNCHANGED lexvars
    \/ \E key \in Keys : create_list_rule(key) /\ UNCHANGED lexvars
    \/ \E key \in Keys, value \in Values : key_value_rule(key, value) /\ UNCHANGED lexvars
    \/ loads_return

Spec == Init /\ [][Next]_vars

(***************************************************************************)
(* Strings.  A text is a sequence of code points and a position counts     *)
(* from 0 as in Python; src[pos] of the code is src[pos + 1] here.  A      *)
(* function that returns (pos, str) or raises TOMLDecodeError returns a    *)
(* record: exc is "none" or "TOMLDecodeError", msg the message given to    *)
(* suffixed_err.                                                           *)
(***************************************************************************)
TAB == 9

LF == 10

CR == 13

SPACE == 32

QUOTE == 34

APOSTROPHE == 39

BACKSLASH == 92

ASCII_CTRL == (0..31) \cup {127}

ILLEGAL_BASIC_STR_CHARS == ASCII_CTRL \ {TAB}

ILLEGAL_MULTILINE_BASIC_STR_CHARS == ASCII_CTRL \ {TAB, LF, CR}

ILLEGAL_LITERAL_STR_CHARS == ILLEGAL_BASIC_STR_CHARS

ILLEGAL_MULTILINE_LITERAL_STR_CHARS == ASCII_CTRL \ {TAB, LF}

TOML_WS == {SPACE, TAB}

TOML_WS_AND_NEWLINE == TOML_WS \cup {LF}

\* the escapes of b t n f r " and \
BASIC_STR_ESCAPE_REPLACEMENTS ==
    (<<BACKSLASH, 98>> :> 8) @@ (<<BACKSLASH, 116>> :> 9) @@ (<<BACKSLASH, 110>> :> 10)
    @@ (<<BACKSLASH, 102>> :> 12) @@ (<<BACKSLASH, 114>> :> 13)
    @@ (<<BACKSLASH, QUOTE>> :> 34) @@ (<<BACKSLASH, BACKSLASH>> :> 92)

Returned(pos, str) == [exc |-> "none", pos |-> pos, str |-> str, msg |-> ""]

suffixed_err(pos, msg) == [exc |-> "TOMLDecodeError", pos |-> pos, str |-> <<>>, msg |-> msg]

\* src[a:b]
Slice(src, a, b) == SubSeq(src, a + 1, IF b < Len(src) THEN b ELSE Len(src))

\* delim * n
Repeat(delim, n) == [i \in 1..n |-> delim]

\* s.replace("\r\n", "\n") of loads
RECURSIVE crlf_to_lf(_)
crlf_to_lf(str) ==
    IF Len(str) = 0
    THEN <<>>
    ELSE IF Len(str) >= 2 /\ str[1] = CR /\ str[2] = LF
         THEN <<LF>> \o crlf_to_lf(SubSeq(str, 3, Len(str)))
         ELSE <<str[1]>> \o crlf_to_lf(Tail(str))

RECURSIVE skip_chars(_, _, _)
skip_chars(src, pos, chars) ==
    IF pos < Len(src) /\ src[pos + 1] \in chars
    THEN skip_chars(src, pos + 1, chars)
    ELSE pos

RECURSIVE skip_until(_, _, _, _, _)
skip_until(src, pos, expect_char, error_on, error_on_eof) ==
    IF pos >= Len(src)
    THEN IF error_on_eof
         THEN suffixed_err(pos, "Expected")
         ELSE Returned(pos, <<>>)
    ELSE IF src[pos + 1] = expect_char
         THEN Returned(pos, <<>>)
         ELSE IF src[pos + 1] \in error_on
              THEN suffixed_err(pos, "Found invalid character")
              ELSE skip_until(src, pos + 1, expect_char, error_on, error_on_eof)

\* string.hexdigits
hexdigits == (48..57) \cup (65..70) \cup (97..102)

\* int(hex_str, 16)
RECURSIVE hex_to_int(_)
hex_to_int(hex_str) ==
    IF Len(hex_str) = 0
    THEN 0
    ELSE LET c == Last(hex_str)
             d == IF c <= 57 THEN c - 48 ELSE IF c <= 70 THEN c - 55 ELSE c - 87
         IN  16 * hex_to_int(ButLast(hex_str)) + d

is_unicode_scalar_value(codepoint) ==
    (0 <= codepoint /\ codepoint <= 55295) \/ (57344 <= codepoint /\ codepoint <= 1114111)

parse_hex_char(src, pos, hex_len) ==
    LET hex_str == Slice(src, pos, pos + hex_len)
    IN  IF Len(hex_str) # hex_len \/ \E i \in 1..Len(hex_str) : hex_str[i] \notin hexdigits
        THEN suffixed_err(pos, "Invalid hex value")
        ELSE IF ~is_unicode_scalar_value(hex_to_int(hex_str))
             THEN suffixed_err(pos + hex_len, "Escaped character is not a Unicode scalar value")
             ELSE Returned(pos + hex_len, <<hex_to_int(hex_str)>>)

\* parse_basic_str_escape leaving the whitespace after the newline in place (line 501)
parse_basic_str_escape_one_newline(src, pos0, multiline) ==
    LET escape_id == Slice(src, pos0, pos0 + 2)
        pos == pos0 + 2
    IN  IF multiline /\ escape_id \in {<<BACKSLASH, SPACE>>, <<BACKSLASH, TAB>>, <<BACKSLASH, LF>>}
        THEN IF escape_id # <<BACKSLASH, LF>>
             THEN LET p == skip_chars(src, pos, TOML_WS)
                  IN  IF p >= Len(src)
                      THEN Returned(p, <<>>)
                      ELSE IF src[p + 1] # LF
                           THEN suffixed_err(p, "Unescaped '\\' in a string")
                           ELSE Returned(p + 1, <<>>)
             ELSE Returned(pos, <<>>)
        ELSE IF escape_id \in DOMAIN BASIC_STR_ESCAPE_REPLACEMENTS
        THEN Returned(pos, <<BASIC_STR_ESCAPE_REPLACEMENTS[escape_id]>>)
        ELSE IF escape_id = <<BACKSLASH, 117>>
        THEN parse_hex_char(src, pos, 4)
        ELSE IF escape_id = <<BACKSLASH, 85>>
        THEN parse_hex_char(src, pos, 8)
        ELSE IF Len(escape_id) # 2
        THEN suffixed_err(pos, "Unterminated string")
        ELSE suffixed_err(pos, "Unescaped '\\' in a string")

\* called at a backslash: src[pos0] is "\\"; 117 is "u" and 85 is "U"
parse_basic_str_escape(src, pos0, multiline) ==
    LET escape_id == Slice(src, pos0, pos0 + 2)
        pos == pos0 + 2
    IN  IF multiline /\ escape_id \in {<<BACKSLASH, SPACE>>, <<BACKSLASH, TAB>>, <<BACKSLASH, LF>>}
        THEN IF escape_id # <<BACKSLASH, LF>>
             THEN LET p == skip_chars(src, pos, TOML_WS)
                  IN  IF p >= Len(src)
                      THEN Returned(p, <<>>)
                      ELSE IF src[p + 1] # LF
                           THEN suffixed_err(p, "Unescaped '\\' in a string")
                           ELSE Returned(skip_chars(src, p + 1, TOML_WS_AND_NEWLINE), <<>>)
             ELSE Returned(skip_chars(src, pos, TOML_WS_AND_NEWLINE), <<>>)
        ELSE IF escape_id \in DOMAIN BASIC_STR_ESCAPE_REPLACEMENTS
        THEN Returned(pos, <<BASIC_STR_ESCAPE_REPLACEMENTS[escape_id]>>)
        ELSE IF escape_id = <<BACKSLASH, 117>>
        THEN parse_hex_char(src, pos, 4)
        ELSE IF escape_id = <<BACKSLASH, 85>>
        THEN parse_hex_char(src, pos, 8)
        ELSE IF Len(escape_id) # 2
        THEN suffixed_err(pos, "Unterminated string")
        ELSE suffixed_err(pos, "Unescaped '\\' in a string")

parse_basic_str_escape_multiline(src, pos) == parse_basic_str_escape(src, pos, TRUE)

\* the while loop of parse_string; parse_escapes is "none" (None), "basic"
\* (parse_basic_str_escape) or "multiline" (parse_basic_str_escape_multiline)
RECURSIVE parse_string_loop(_, _, _, _, _, _, _, _)
parse_string_loop(src, pos, result, start_pos, delim, delim_len, error_on, parse_escapes) ==
    IF pos >= Len(src)
    THEN suffixed_err(pos, "Unterminated string")
    ELSE LET char == src[pos + 1]
         IN  IF char = delim
             THEN IF Slice(src, pos + 1, pos + delim_len) = Repeat(delim, delim_len - 1)
                  THEN Returned(pos + delim_len, result \o Slice(src, start_pos, pos))
                  ELSE parse_string_loop(src, pos + 1, result, start_pos,
                                         delim, delim_len, error_on, parse_escapes)
             ELSE IF parse_escapes # "none" /\ char = BACKSLASH
             THEN LET e == IF parse_escapes = "multiline"
                           THEN parse_basic_str_escape_multiline(src, pos)
                           ELSE parse_basic_str_escape(src, pos, FALSE)
                  IN  IF e.exc # "none"
                      THEN e
                      ELSE parse_string_loop(src, e.pos,
                                             result \o Slice(src, start_pos, pos) \o e.str,
                                             e.pos, delim, delim_len, error_on, parse_escapes)
             ELSE IF char \in error_on
             THEN suffixed_err(pos, "Illegal character")
             ELSE parse_string_loop(src, pos + 1, result, start_pos,
                                    delim, delim_len, error_on, parse_escapes)

parse_string(src, pos, delim, delim_len, error_on, parse_escapes) ==
    parse_string_loop(src, pos, <<>>, pos, delim, delim_len, error_on, parse_escapes)

parse_basic_str(src, pos) ==
    parse_string(src, pos + 1, QUOTE, 1, ILLEGAL_BASIC_STR_CHARS, "basic")

parse_literal_str(src, pos) ==
    LET r == skip_until(src, pos + 1, APOSTROPHE, ILLEGAL_LITERAL_STR_CHARS, TRUE)
    IN  IF r.exc # "none"
        THEN r
        ELSE Returned(r.pos + 1, Slice(src, pos + 1, r.pos))

parse_multiline_str(src, pos0, literal) ==
    LET pos == IF Slice(src, pos0 + 3, pos0 + 4) = <<LF>> THEN pos0 + 4 ELSE pos0 + 3
        delim == IF literal THEN APOSTROPHE ELSE QUOTE
        illegal_chars == IF literal
                         THEN ILLEGAL_MULTILINE_LITERAL_STR_CHARS
                         ELSE ILLEGAL_MULTILINE_BASIC_STR_CHARS
        escape_parser == IF literal THEN "none" ELSE "multiline"
        r == parse_string(src, pos, delim, 3, illegal_chars, escape_parser)
    IN  IF r.exc # "none"
        THEN r
        ELSE IF Slice(src, r.pos, r.pos + 1) # <<delim>>
        THEN Returned(r.pos, r.str)
        ELSE IF Slice(src, r.pos + 1, r.pos + 2) # <<delim>>
        THEN Returned(r.pos + 1, r.str \o <<delim>>)
        ELSE Returned(r.pos + 2, r.str \o <<delim, delim>>)

(***************************************************************************)
(* The tokenizer, tomli/_re.py: patterns matched at a position.  A match   *)
(* is a record: ok, end (the position after the matched text) and the      *)
(* groups, a group that did not take part being <<>>.                      *)
(***************************************************************************)
Digits == 48..57

NoMatch == [ok |-> FALSE]

In(src, pos, chars) == pos < Len(src) /\ src[pos + 1] \in chars

\* int(str) of a text of decimal digits
RECURSIVE DecInt(_)
DecInt(str) ==
    IF Len(str) = 0 THEN 0 ELSE 10 * DecInt(ButLast(str)) + (Last(str) - 48)

\* two digits at pos that read as a number of lo..hi
TwoDigits(src, pos, lo, hi) ==
    /\ In(src, pos, Digits)
    /\ In(src, pos + 1, Digits)
    /\ DecInt(Slice(src, pos, pos + 2)) \in lo..hi

\* _TIME_RE_STR: ([01][0-9]|2[0-3]):([0-5][0-9]):([0-5][0-9])(\.[0-9]+)?
TIME_RE_match(src, pos) ==
    IF /\ TwoDigits(src, pos, 0, 23)
       /\ In(src, pos + 2, {58})
       /\ TwoDigits(src, pos + 3, 0, 59)
       /\ In(src, pos + 5, {58})
       /\ TwoDigits(src, pos + 6, 0, 59)
    THEN LET frac_end == skip_chars(src, pos + 9, Digits)
             frac == In(src, pos + 8, {46}) /\ frac_end > pos + 9
         IN  [ok |-> TRUE,
              end |-> IF frac THEN frac_end ELSE pos + 8,
              hour |-> Slice(src, pos, pos + 2),
              minute |-> Slice(src, pos + 3, pos + 5),
              sec |-> Slice(src, pos + 6, pos + 8),
              micros |-> IF frac THEN Slice(src, pos + 8, frac_end) ELSE <<>>]
    ELSE NoMatch

RE_LOCAL_TIME_match(src, pos) == TIME_RE_match(src, pos)

\* the time offset of RE_DATETIME: (?:[Zz]|[+-]([01][0-9]|2[0-3]):([0-5][0-9]))?
\* the literal Z or z, which is no group, or the offset group: a sign, the hour
\* and the minute
OFFSET_RE_match(src, pos) ==
    IF In(src, pos, {90, 122})
    THEN [ok |-> TRUE, end |-> pos + 1, offset_hour |-> <<>>, offset_minute |-> <<>>]
    ELSE IF /\ In(src, pos, {43, 45})
            /\ TwoDigits(src, pos + 1, 0, 23)
            /\ In(src, pos + 3, {58})
            /\ TwoDigits(src, pos + 4, 0, 59)
    THEN [ok |-> TRUE, end |-> pos + 6,
          offset_hour |-> Slice(src, pos + 1, pos + 3),
          offset_minute |-> Slice(src, pos + 4, pos + 6)]
    ELSE [ok |-> TRUE, end |-> pos, offset_hour |-> <<>>, offset_minute |-> <<>>]

\* RE_DATETIME: a date, then maybe "T" or a space, a time and maybe an offset
RE_DATETIME_match(src, pos) ==
    IF /\ \A i \in 0..3 : In(src, pos + i, Digits)
       /\ In(src, pos + 4, {45})
       /\ TwoDigits(src, pos + 5, 1, 12)
       /\ In(src, pos + 7, {45})
       /\ TwoDigits(src, pos + 8, 1, 31)
    THEN LET t == IF In(src, pos + 10, {84, SPACE})
                  THEN TIME_RE_match(src, pos + 11)
                  ELSE NoMatch
             o == IF t.ok THEN OFFSET_RE_match(src, t.end) ELSE NoMatch
         IN  [ok |-> TRUE,
              end |-> IF t.ok THEN o.end ELSE pos + 10,
              year |-> Slice(src, pos, pos + 4),
              month |-> Slice(src, pos + 5, pos + 7),
              day |-> Slice(src, pos + 8, pos + 10),
              hour |-> IF t.ok THEN t.hour ELSE <<>>,
              minute |-> IF t.ok THEN t.minute ELSE <<>>,
              sec |-> IF t.ok THEN t.sec ELSE <<>>,
              micros |-> IF t.ok THEN t.micros ELSE <<>>,
              offset_hour |-> IF t.ok THEN o.offset_hour ELSE <<>>,
              offset_minute |-> IF t.ok THEN o.offset_minute ELSE <<>>]
    ELSE NoMatch

\* digit(?:_?digit)* from pos on: the position after it, pos if there is none
RECURSIVE digits_end(_, _, _)
digits_end(src, pos, digits) ==
    IF ~In(src, pos, digits)
    THEN pos
    ELSE IF In(src, pos + 1, digits)
         THEN digits_end(src, pos + 1, digits)
         ELSE IF In(src, pos + 1, {95}) /\ In(src, pos + 2, digits)
              THEN digits_end(src, pos + 2, digits)
              ELSE pos + 1

\* RE_HEX, RE_OCT, RE_BIN
RE_DIGITS_match(src, pos, digits) ==
    IF In(src, pos, digits)
    THEN [ok |-> TRUE, end |-> digits_end(src, pos, digits)]
    ELSE NoMatch

\* RE_DEC_OR_FLOAT: [+-]?(?:0|[1-9](?:_?[0-9])*)(?:\.[0-9](?:_?[0-9])*)?(?:[eE][+-]?[0-9](?:_?[0-9])*)?
RE_DEC_OR_FLOAT_match(src, pos) ==
    LET p1 == IF In(src, pos, {43, 45}) THEN pos + 1 ELSE pos
        p2 == IF In(src, p1, {48}) THEN p1 + 1 ELSE digits_end(src, p1, Digits)
        p3 == IF In(src, p2, {46}) /\ In(src, p2 + 1, Digits)
              THEN digits_end(src, p2 + 1, Digits)
              ELSE p2
        pe == IF In(src, p3 + 1, {43, 45}) THEN p3 + 2 ELSE p3 + 1
        p4 == IF In(src, p3, {69, 101}) /\ In(src, pe, Digits)
              THEN digits_end(src, pe, Digits)
              ELSE p3
    IN  IF p2 > p1 THEN [ok |-> TRUE, end |-> p4] ELSE NoMatch

(***************************************************************************)
(* The scalar builders and the value parser.  A function that returns      *)
(* (pos, value) returns Parsed(pos, value); the string builders return     *)
(* Returned(pos, str) as above, ValueOf tells the value of either.         *)
(***************************************************************************)
StrVal(str) == [type |-> "str", val |-> str]

BoolVal(b) == [type |-> "bool", val |-> b]

\* parse_float(match_str): the text handed to the caller's float parser
FloatVal(str) == [type |-> "float", str |-> str]

\* tzinfo: None, or timezone(timedelta(minutes=m))
NoTz == [aware |-> FALSE, minutes |-> 0]

Tz(m) == [aware |-> TRUE, minutes |-> m]

Parsed(pos, value) == [exc |-> "none", pos |-> pos, value |-> value, msg |-> ""]

Raised(exc, pos, msg) == [exc |-> exc, pos |-> pos, str |-> <<>>, msg |-> msg]

ValueOf(r) == IF "value" \in DOMAIN r THEN r.value ELSE StrVal(r.str)

\* c in str
Contains(str, chars) == \E i \in 1..Len(str) : str[i] \in chars

\* int(str, base): the underscores between the digits do not count
RECURSIVE int_of(_, _)
int_of(str, base) ==
    IF Len(str) = 0
    THEN 0
    ELSE IF Last(str) = 95
         THEN int_of(ButLast(str), base)
         ELSE base * int_of(ButLast(str), base) + hex_to_int(<<Last(str)>>)

\* the days of a month, as date() and datetime() check them
days_in_month(year, month) ==
    IF month = 2
    THEN IF year % 4 = 0 /\ (year % 100 # 0 \/ year % 400 = 0) THEN 29 ELSE 28
    ELSE IF month \in {4, 6, 9, 11} THEN 30 ELSE 31

\* date(year, month, day) raises ValueError
date_is_invalid(year, month, day) ==
    year < 1 \/ day > days_in_month(year, month)

\* int(micros_str[1:].ljust(6, "0")[:6]) if micros_str else 0
micros_of(micros_str) ==
    IF Len(micros_str) = 0
    THEN 0
    ELSE DecInt(SubSeq(Tail(micros_str) \o Repeat(48, 6), 1, 6))

parse_datetime(src, pos, match) ==
    LET match_str == Slice(src, pos, match.end)
        year == DecInt(match.year)
        month == DecInt(match.month)
        day == DecInt(match.day)
        offset_dir == IF Contains(match_str, {43}) THEN 1 ELSE 0 - 1
        tz == IF match.offset_hour # <<>>
              THEN Tz(offset_dir * DecInt(match.offset_hour) * 60
                      + offset_dir * DecInt(match.offset_minute))
              ELSE IF Contains(match_str, {90})
                   THEN Tz(0)
                   ELSE NoTz
    IN  IF date_is_invalid(year, month, day)
        THEN Raised("ValueError", match.end,
                    IF year < 1 THEN "year 0 is out of range"
                    ELSE "day is out of range for month")
        ELSE IF match.hour = <<>>
        THEN Parsed(match.end, [type |-> "date", year |-> year, month |-> month, day |-> day])
        ELSE Parsed(match.end,
                    [type |-> "datetime", year |-> year, month |-> month, day |-> day,
                     hour |-> DecInt(match.hour), minute |-> DecInt(match.minute),
                     second |-> DecInt(match.sec), microsecond |-> micros_of(match.micros),
                     tzinfo |-> tz])

parse_localtime(src, pos, match) ==
    Parsed(match.end,
           [type |-> "time", hour |-> DecInt(match.hour), minute |-> DecInt(match.minute),
            second |-> DecInt(match.sec), microsecond |-> micros_of(match.micros)])

parse_dec_or_float(src, pos, match) ==
    LET match_str == Slice(src, pos, match.end)
    IN  IF Contains(match_str, {46, 101, 69})
        THEN Parsed(match.end, FloatVal(match_str))
        ELSE IF match_str[1] = 45
             THEN Parsed(match.end, IntVal(0 - int_of(Tail(match_str), 10)))
             ELSE IF match_str[1] = 43
                  THEN Parsed(match.end, IntVal(int_of(Tail(match_str), 10)))
                  ELSE Parsed(match.end, IntVal(int_of(match_str, 10)))

\* parse_regex and the int(str, base) of its caller
parse_regex(src, pos, digits, base) ==
    LET match == RE_DIGITS_match(src, pos, digits)
    IN  IF ~match.ok
        THEN suffixed_err(pos, "Unexpected sequence")
        ELSE Parsed(match.end, IntVal(int_of(Slice(src, pos, match.end), base)))

ILLEGAL_COMMENT_CHARS == ILLEGAL_BASIC_STR_CHARS

BARE_KEY_CHARS == (65..90) \cup (97..122) \cup Digits \cup {45, 95}

KEY_INITIAL_CHARS == BARE_KEY_CHARS \cup {QUOTE, APOSTROPHE}

expect_comment(src, pos) == skip_until(src, pos + 1, LF, ILLEGAL_COMMENT_CHARS, FALSE)

skip_comment(src, pos) ==
    IF In(src, pos, {35}) THEN expect_comment(src, pos) ELSE Returned(pos, <<>>)

RECURSIVE skip_comments_and_array_ws(_, _)
skip_comments_and_array_ws(src, pos) ==
    LET r == skip_comment(src, skip_chars(src, pos, TOML_WS_AND_NEWLINE))
    IN  IF r.exc # "none"
        THEN r
        ELSE IF r.pos = pos
             THEN r
             ELSE skip_comments_and_array_ws(src, r.pos)

parse_key_part(src, pos) ==
    IF In(src, pos, BARE_KEY_CHARS)
    THEN Returned(skip_chars(src, pos, BARE_KEY_CHARS),
                  Slice(src, pos, skip_chars(src, pos, BARE_KEY_CHARS)))
    ELSE IF In(src, pos, {APOSTROPHE})
    THEN parse_literal_str(src, pos)
    ELSE IF In(src, pos, {QUOTE})
    THEN parse_basic_str(src, pos)
    ELSE suffixed_err(pos, "Invalid initial character for a key part")

RECURSIVE parse_key_loop(_, _, _)

\* parse_key once parse_key_part has returned r or raised: the part joins the key
\* and the whitespace after it is skipped
parse_key_part_read(src, r, key) ==
    IF r.exc # "none"
    THEN r
    ELSE parse_key_loop(src, skip_chars(src, r.pos, TOML_WS), Append(key, r.str))

\* the while loop of parse_key: pos is after the whitespace that follows a key part
parse_key_loop(src, pos, key) ==
    IF ~In(src, pos, {46})
    THEN [exc |-> "none", pos |-> pos, key |-> key, msg |-> ""]
    ELSE parse_key_part_read(src, parse_key_part(src, skip_chars(src, pos + 1, TOML_WS)), key)

parse_key(src, pos) == parse_key_part_read(src, parse_key_part(src, pos), <<>>)

RECURSIVE parse_value(_, _)

RECURSIVE parse_array_loop(_, _, _)

RECURSIVE parse_inline_table_loop(_, _, _, _)

\* parse_key_value_pair once parse_value has returned v or raised
parse_key_value_pair_value(key, v) ==
    IF v.exc # "none"
    THEN v
    ELSE [exc |-> "none", pos |-> v.pos, key |-> key, value |-> ValueOf(v), msg |-> ""]

\* parse_key_value_pair once parse_key has returned k or raised
parse_key_value_pair_key(src, k) ==
    IF k.exc # "none"
    THEN k
    ELSE IF ~In(src, k.pos, {61})
    THEN suffixed_err(k.pos, "Expected '=' after a key in a key/value pair")
    ELSE parse_key_value_pair_value(k.key,
                                    parse_value(src, skip_chars(src, k.pos + 1, TOML_WS)))

parse_key_value_pair(src, pos) == parse_key_value_pair_key(src, parse_key(src, pos))

\* a turn of the while loop of parse_array after the comma: w is what the
\* second skip_comments_and_array_ws returned or raised
parse_array_after_comma(src, w, array) ==
    IF w.exc # "none"
    THEN w
    ELSE IF Slice(src, w.pos, w.pos + 1) = <<93>>
    THEN Parsed(w.pos + 1, List(array))
    ELSE parse_array_loop(src, w.pos, array)

\* a turn of the while loop of parse_array after `array.append(val)`: w is what
\* the first skip_comments_and_array_ws returned or raised
parse_array_appended(src, w, array) ==
    IF w.exc # "none"
    THEN w
    ELSE IF Slice(src, w.pos, w.pos + 1) = <<93>>
    THEN Parsed(w.pos + 1, List(array))
    ELSE IF Slice(src, w.pos, w.pos + 1) # <<44>>
    THEN suffixed_err(w.pos, "Unclosed array")
    ELSE parse_array_after_comma(src, skip_comments_and_array_ws(src, w.pos + 1), array)

\* a turn of the while loop of parse_array once parse_value has returned v or raised
parse_array_value(src, v, array) ==
    IF v.exc # "none"
    THEN v
    ELSE parse_array_appended(src, skip_comments_and_array_ws(src, v.pos),
                              Append(array, ValueOf(v)))

\* the while loop of parse_array: pos is where the next element starts
parse_array_loop(src, pos, array) == parse_array_value(src, parse_value(src, pos), array)

parse_array(src, pos) ==
    LET w == skip_comments_and_array_ws(src, pos + 1)
    IN  IF w.exc # "none"
        THEN w
        ELSE IF Slice(src, w.pos, w.pos + 1) = <<93>>
        THEN Parsed(w.pos + 1, List(<<>>))
        ELSE parse_array_loop(src, w.pos, <<>>)

\* a turn of the while loop of parse_inline_table from `nest[key_stem] = value` on:
\* nested is nested_dict.dict with the value stored, p the position after the
\* whitespace that follows the pair
parse_inline_table_stored(src, p, kv, nested, fl) ==
    IF Slice(src, p, p + 1) = <<125>>
    THEN Parsed(p + 1, Dict(nested))
    ELSE IF Slice(src, p, p + 1) # <<44>>
    THEN suffixed_err(p, "Unclosed inline table")
    ELSE parse_inline_table_loop(src, skip_chars(src, p + 1, TOML_WS), nested,
                                 IF kv.value.type \in {"dict", "list"}
                                 THEN set(fl, kv.key, FROZEN, TRUE)
                                 ELSE fl)

\* a turn of the while loop of parse_inline_table once get_or_create_nest has
\* returned r or raised
parse_inline_table_nest(src, kv, r, fl) ==
    IF r.exc # "none"
    THEN Raised(ExceptKeyError(r.exc), kv.pos, "Can not overwrite a value")
    ELSE IF Last(kv.key) \in DOMAIN r.nest
    THEN suffixed_err(kv.pos, "Duplicate inline table key")
    ELSE parse_inline_table_stored(src, skip_chars(src, kv.pos, TOML_WS), kv,
                                   store(r.dict, r.path, Last(kv.key), kv.value), fl)

\* a turn of the while loop of parse_inline_table once parse_key_value_pair has
\* returned kv or raised
parse_inline_table_pair_read(src, kv, dict, fl) ==
    IF kv.exc # "none"
    THEN kv
    ELSE IF is_(fl, kv.key, FROZEN)
    THEN suffixed_err(kv.pos, "Can not mutate immutable namespace")
    ELSE parse_inline_table_nest(src, kv, get_or_create_nest(dict, ButLast(kv.key), FALSE), fl)

\* the while loop of parse_inline_table on its nested_dict.dict and flags._flags
parse_inline_table_loop(src, pos, dict, fl) ==
    parse_inline_table_pair_read(src, parse_key_value_pair(src, pos), dict, fl)

parse_inline_table(src, pos) ==
    LET p == skip_chars(src, pos + 1, TOML_WS)
    IN  IF Slice(src, p, p + 1) = <<125>>
        THEN Parsed(p + 1, Dict(EmptyDict))
        ELSE parse_inline_table_loop(src, p, EmptyDict, EmptyDict)

\* the text from pos on opens with str
StartsWith(src, pos, str) == Slice(src, pos, pos + Len(str)) = str

\* the dispatch of parse_value after the strings and the booleans
parse_value_number_or_container(src, pos) ==
    LET date_match == RE_DATETIME_match(src, pos)
        localtime_match == RE_LOCAL_TIME_match(src, pos)
        dec_match == RE_DEC_OR_FLOAT_match(src, pos)
    IN  IF date_match.ok
        THEN parse_datetime(src, pos, date_match)
        ELSE IF localtime_match.ok
        THEN parse_localtime(src, pos, localtime_match)
        ELSE IF In(src, pos, {48}) /\ In(src, pos + 1, {120})
        THEN parse_regex(src, pos + 2, hexdigits, 16)
        ELSE IF In(src, pos, {48}) /\ In(src, pos + 1, {111})
        THEN parse_regex(src, pos + 2, 48..55, 8)
        ELSE IF In(src, pos, {48}) /\ In(src, pos + 1, {98})
        THEN parse_regex(src, pos + 2, {48, 49}, 2)
        ELSE IF dec_match.ok
        THEN parse_dec_or_float(src, pos, dec_match)
        ELSE IF In(src, pos, {91})
        THEN parse_array(src, pos)
        ELSE IF In(src, pos, {123})
        THEN parse_inline_table(src, pos)
        ELSE IF Slice(src, pos, pos + 3) \in {<<105, 110, 102>>, <<110, 97, 110>>}
        THEN Parsed(pos + 3, FloatVal(Slice(src, pos, pos + 3)))
        ELSE IF /\ In(src, pos, {43, 45})
                /\ Slice(src, pos + 1, pos + 4) \in {<<105, 110, 102>>, <<110, 97, 110>>}
        THEN Parsed(pos + 4, FloatVal(Slice(src, pos, pos + 4)))
        ELSE suffixed_err(pos, "Invalid value")

parse_value(src, pos) ==
    IF pos < Len(src) /\ src[pos + 1] = QUOTE
    THEN IF Slice(src, pos + 1, pos + 3) = <<QUOTE, QUOTE>>
         THEN parse_multiline_str(src, pos, FALSE)
         ELSE parse_basic_str(src, pos)
    ELSE IF pos < Len(src) /\ src[pos + 1] = APOSTROPHE
    THEN IF Slice(src, pos + 1, pos + 3) = <<APOSTROPHE, APOSTROPHE>>
         THEN parse_multiline_str(src, pos, TRUE)
         ELSE parse_literal_str(src, pos)
    ELSE IF StartsWith(src, pos, <<116, 114, 117, 101>>)
    THEN Parsed(pos + 4, BoolVal(TRUE))
    ELSE IF StartsWith(src, pos, <<102, 97, 108, 115, 101>>)
    THEN Parsed(pos + 5, BoolVal(FALSE))
    ELSE parse_value_number_or_container(src, pos)

(***************************************************************************)
(* SpecString: loads on a text that is one string value.  The texts are    *)
(* an opening delimiter of one of the four kinds, a body of at most        *)
(* MaxBody characters, and the closing delimiter or the end of the text.   *)
(* The body is drawn from: NUL and DEL (control characters), tab, newline, *)
(* carriage return, space, backslash, the letter a (97) and the delimiter. *)
(***************************************************************************)
MaxBody == 4

BodyChars == {0, 127, TAB, LF, CR, SPACE, BACKSLASH, 97}

Openers == {<<QUOTE>>, <<QUOTE, QUOTE, QUOTE>>, <<APOSTROPHE>>,
            <<APOSTROPHE, APOSTROPHE, APOSTROPHE>>}

InitString ==
    /\ out = EmptyDict
    /\ flags = EmptyDict
    /\ header_namespace = <<>>
    /\ status = "parsing"
    /\ doc = <<>>
    /\ \E open \in Openers, n \in 0..MaxBody :
           \E body \in [1..n -> BodyChars \cup {open[1]}], close \in {open, <<>>} :
               text = open \o body \o close
    /\ sres = NotParsed
    /\ nested_dict = EmptyDict
    /\ local_flags = EmptyDict
    /\ inl_status = "none"
    /\ inl_msg = ""
    /\ pairs = <<>>
    /\ position = 0
    /\ lpc = "none"

\* loads as far as the value: the text is normalised and parse_value is called on it
loads_string ==
    /\ sres = NotParsed
    /\ sres' = parse_value(crlf_to_lf(text), 0)
    /\ UNCHANGED <<docvars, text, inlvars, lexvars>>

NextString == loads_string

SpecString == InitString /\ [][NextString]_vars

(***************************************************************************)
(* SpecInline: parse_inline_table, from the construction of its own        *)
(* NestedDict and Flags on.  A step reads one key/value pair and the       *)
(* character c that follows it ("" at the end of the text).  The document  *)
(* around it is empty, or holds `a = []`, which froze a in State.flags.    *)
(***************************************************************************)
MaxPairs == 3

InlineKeys == {<<"a">>, <<"b">>, <<"a", "b">>, <<"a", "c">>, <<"a", "b", "c">>}

InlineValues == {IntVal(1), List(<<IntVal(1)>>), Dict("x" :> IntVal(1))}

InlineAfter == {"}", ",", ""}

Pair(key, value, c) == [key |-> key, value |-> value, c |-> c]

InitInline ==
    /\ \/ /\ doc = <<>>
          /\ out = EmptyDict
          /\ flags = EmptyDict
       \/ /\ doc = <<Stmt("key_value", <<"a">>, List(<<>>))>>
          /\ out = ("a" :> List(<<>>))
          /\ flags = set(set_for_relative_key(EmptyDict, <<>>, <<"a">>, EXPLICIT_NEST),
                         <<"a">>, FROZEN, TRUE)
    /\ header_namespace = <<>>
    /\ status = "parsing"
    /\ text = <<>>
    /\ sres = NotParsed
    /\ nested_dict = EmptyDict
    /\ local_flags = EmptyDict
    /\ inl_status = "open"
    /\ inl_msg = ""
    /\ pairs = <<>>
    /\ position = 0
    /\ lpc = "none"

\* the "}" right after the "{"
parse_inline_table_empty ==
    /\ inl_status = "open"
    /\ pairs = <<>>
    /\ inl_status' = "returned"
    /\ UNCHANGED <<nested_dict, local_flags, inl_msg, pairs, docvars, strvars, lexvars>>

\* one turn of the while loop
parse_inline_table_pair(key, value, c) ==
    /\ inl_status = "open"
    /\ Len(pairs) < MaxPairs
    /\ pairs' = Append(pairs, Pair(key, value, c))
    /\ UNCHANGED <<docvars, strvars, lexvars>>
    /\ LET key_parent == ButLast(key)
           key_stem == Last(key)
           r == get_or_create_nest(nested_dict, key_parent, FALSE)
       IN  IF is_(local_flags, key, FROZEN)
           THEN /\ inl_status' = "TOMLDecodeError"
                /\ inl_msg' = "Can not mutate immutable namespace"
                /\ UNCHANGED <<nested_dict, local_flags>>
           ELSE IF r.exc # "none"
           THEN /\ inl_status' = ExceptKeyError(r.exc)
                /\ inl_msg' = "Can not overwrite a value"
                /\ nested_dict' = r.dict
                /\ UNCHANGED local_flags
           ELSE IF key_stem \in DOMAIN r.nest
           THEN /\ inl_status' = "TOMLDecodeError"
                /\ inl_msg' = "Duplicate inline table key"
                /\ nested_dict' = r.dict
                /\ UNCHANGED local_flags
           ELSE /\ nested_dict' = store(r.dict, r.path, key_stem, value)
                /\ IF c = "}"
                   THEN /\ inl_status' = "returned"
                        /\ UNCHANGED <<inl_msg, local_flags>>
                   ELSE IF c # ","
                   THEN /\ inl_status' = "TOMLDecodeError"
                        /\ inl_msg' = "Unclosed inline table"
                        /\ UNCHANGED local_flags
                   ELSE /\ inl_status' = "open"
                        /\ inl_msg' = inl_msg
                        /\ local_flags' = IF value.type \in {"dict", "list"}
                                          THEN set(local_flags, key, FROZEN, TRUE)
                                          ELSE local_flags

NextInline ==
    \/ parse_inline_table_empty
    \/ \E key \in InlineKeys, value \in InlineValues, c \in InlineAfter :
           parse_inline_table_pair(key, value, c)

SpecInline == InitInline /\ [][NextInline]_vars

(***************************************************************************)
(* SpecLoads: loads on a text, from `pos = 0` and a new State on.  A step  *)
(* is one stretch of the body of its `while True` loop; lpc tells which    *)
(* comes next: "statement" (steps 1 and 2, the rules), "dict_header_end"   *)
(* and "list_header_end" (the closing bracket of a header, which the       *)
(* rules look at after they have acted on State) and "line_end" (steps 3   *)
(* and 4).  The texts are the concatenations of at most MaxPieces pieces:  *)
(* the characters a . = 1 # [ ] { } , " newline, space and DEL (a control  *)
(* character), the pair a=1, the closing ]] and the date 2021-02-30.       *)
(***************************************************************************)
MaxPieces == 4

Pieces == {<<97>>, <<46>>, <<61>>, <<49>>, <<35>>, <<91>>, <<93>>, <<123>>, <<125>>,
           <<44>>, <<QUOTE>>, <<LF>>, <<SPACE>>, <<127>>,
           <<97, 61, 49>>, <<93, 93>>,
           <<50, 48, 50, 49, 45, 48, 50, 45, 51, 48>>}

RECURSIVE Concat(_)
Concat(pieces) ==
    IF pieces = <<>> THEN <<>> ELSE pieces[1] \o Concat(Tail(pieces))

InitLoads ==
    /\ out = EmptyDict
    /\ flags = EmptyDict
    /\ header_namespace = <<>>
    /\ status = "parsing"
    /\ doc = <<>>
    /\ \E n \in 0..MaxPieces : \E pieces \in [1..n -> Pieces] : text = Concat(pieces)
    /\ sres = NotParsed
    /\ nested_dict = EmptyDict
    /\ local_flags = EmptyDict
    /\ inl_status = "none"
    /\ inl_msg = ""
    /\ pairs = <<>>
    /\ position = 0
    /\ lpc = "statement"

\* src = s.replace("\r\n", "\n")
loads_src == crlf_to_lf(text)

\* step 1 of the loop: pos = skip_chars(src, pos, TOML_WS)
loads_statement_pos == skip_chars(loads_src, position, TOML_WS)

\* at step 2 of the loop, with char = src[pos] one of chars
loads_at(chars) ==
    /\ status = "parsing"
    /\ lpc = "statement"
    /\ In(loads_src, loads_statement_pos, chars)

\* try: char = src[pos] except IndexError: break, and return state.out.dict
loads_end_of_input ==
    /\ status = "parsing"
    /\ lpc = "statement"
    /\ loads_statement_pos >= Len(loads_src)
    /\ status' = "returned"
    /\ position' = loads_statement_pos
    /\ UNCHANGED <<out, flags, header_namespace, doc, strvars, inlvars, lpc>>

\* if char == "\n": pos += 1; continue
loads_newline ==
    /\ loads_at({LF})
    /\ position' = loads_statement_pos + 1
    /\ UNCHANGED <<docvars, strvars, inlvars, lpc>>

\* elif char == "#": pos = expect_comment(src, pos)
loads_comment ==
    /\ loads_at({35})
    /\ LET r == expect_comment(loads_src, loads_statement_pos)
       IN  IF r.exc # "none"
           THEN /\ status' = r.exc
                /\ position' = loads_statement_pos
                /\ UNCHANGED lpc
           ELSE /\ position' = r.pos
                /\ lpc' = "line_end"
                /\ UNCHANGED status
    /\ UNCHANGED <<out, flags, header_namespace, doc, strvars, inlvars>>

\* a rule of loads once its parser has returned r or raised: the exception of
\* the parser or of the rule leaves loads, whose pos is the one step 1 assigned,
\* or the rule has acted on State and goes on at r.pos
loads_rule(r, rule, then) ==
    IF r.exc # "none"
    THEN /\ status' = r.exc
         /\ position' = loads_statement_pos
         /\ UNCHANGED <<out, flags, header_namespace, doc, strvars, inlvars, lpc>>
    ELSE /\ rule
         /\ position' = IF status' = "parsing" THEN r.pos ELSE loads_statement_pos
         /\ lpc' = IF status' = "parsing" THEN then ELSE lpc

\* key_value_rule once parse_key_value_pair has returned kv or raised
loads_key_value_read(kv) == loads_rule(kv, key_value_rule(kv.key, kv.value), "line_end")

\* elif char in KEY_INITIAL_CHARS: pos = key_value_rule(src, pos, state, parse_float)
loads_key_value ==
    /\ loads_at(KEY_INITIAL_CHARS)
    /\ loads_key_value_read(parse_key_value_pair(loads_src, loads_statement_pos))

\* create_list_rule once parse_key has returned k or raised
loads_create_list_read(k) == loads_rule(k, create_list_rule(k.key), "list_header_end")

\* create_dict_rule once parse_key has returned k or raised
loads_create_dict_read(k) == loads_rule(k, create_dict_rule(k.key), "dict_header_end")

\* elif src[pos : pos + 2] == "[[": pos = create_list_rule(src, pos, state)
loads_create_list ==
    /\ loads_at({91})
    /\ In(loads_src, loads_statement_pos + 1, {91})
    /\ loads_create_list_read(
           parse_key(loads_src, skip_chars(loads_src, loads_statement_pos + 2, TOML_WS)))

\* elif char == "[": pos = create_dict_rule(src, pos, state)
loads_create_dict ==
    /\ loads_at({91})
    /\ ~In(loads_src, loads_statement_pos + 1, {91})
    /\ loads_create_dict_read(
           parse_key(loads_src, skip_chars(loads_src, loads_statement_pos + 1, TOML_WS)))

\* else: raise suffixed_err(src, pos, "Invalid statement")
loads_invalid_statement ==
    /\ status = "parsing"
    /\ lpc = "statement"
    /\ loads_statement_pos < Len(loads_src)
    /\ ~In(loads_src, loads_statement_pos, {LF, 35, 91} \cup KEY_INITIAL_CHARS)
    /\ status' = "TOMLDecodeError"
    /\ position' = loads_statement_pos
    /\ UNCHANGED <<out, flags, header_namespace, doc, strvars, inlvars, lpc>>

\* create_list_rule: end_marker = src[pos : pos + 2]; if end_marker != "]]": raise;
\* return pos + 2
loads_list_header_end ==
    /\ status = "parsing"
    /\ lpc = "list_header_end"
    /\ IF Slice(loads_src, position, position + 2) # <<93, 93>>
       THEN /\ status' = "TOMLDecodeError"
            /\ UNCHANGED lexvars
       ELSE /\ position' = position + 2
            /\ lpc' = "line_end"
            /\ UNCHANGED status
    /\ UNCHANGED <<out, flags, header_namespace, doc, strvars, inlvars>>

\* create_dict_rule: if src[pos : pos + 1] != "]": raise; return pos + 1
loads_dict_header_end ==
    /\ status = "parsing"
    /\ lpc = "dict_header_end"
    /\ IF Slice(loads_src, position, position + 1) # <<93>>
       THEN /\ status' = "TOMLDecodeError"
            /\ UNCHANGED lexvars
       ELSE /\ position' = position + 1
            /\ lpc' = "line_end"
            /\ UNCHANGED status
    /\ UNCHANGED <<out, flags, header_namespace, doc, strvars, inlvars>>

\* steps 3 and 4: the trailing whitespace and comment, then the end of the line
\* or of the text
loads_line_end ==
    /\ status = "parsing"
    /\ lpc = "line_end"
    /\ LET r == skip_comment(loads_src, skip_chars(loads_src, position, TOML_WS))
       IN  IF r.exc # "none"
           THEN /\ status' = r.exc
                /\ position' = skip_chars(loads_src, position, TOML_WS)
                /\ UNCHANGED lpc
           ELSE IF r.pos >= Len(loads_src)
           THEN /\ status' = "returned"
                /\ position' = r.pos
                /\ UNCHANGED lpc
           ELSE IF loads_src[r.pos + 1] # LF
           THEN /\ status' = "TOMLDecodeError"
                /\ position' = r.pos
                /\ UNCHANGED lpc
           ELSE /\ position' = r.pos + 1
                /\ lpc' = "statement"
                /\ UNCHANGED status
    /\ UNCHANGED <<out, flags, header_namespace, doc, strvars, inlvars>>

NextLoads ==
    \/ loads_end_of_input
    \/ loads_newline
    \/ loads_comment
    \/ loads_key_value
    \/ loads_create_list
    \/ loads_create_dict
    \/ loads_invalid_statement
    \/ loads_list_header_end
    \/ loads_dict_header_end
    \/ loads_line_end

SpecLoads == InitLoads /\ [][NextLoads]_vars

(***************************************************************************)
(* SpecDateTime: loads on a text that is one date-time value, as far as    *)
(* the value.  The texts are a date, "T" or a space, a time of day, maybe  *)
(* a fraction of a second, and an offset: none, the literal Z or z, or a   *)
(* sign with an hour and a minute.  A text may stop after the date.        *)
(***************************************************************************)
\* 1979-05-27 and 2020-02-29
DateTexts == {<<49, 57, 55, 57, 45, 48, 53, 45, 50, 55>>,
              <<50, 48, 50, 48, 45, 48, 50, 45, 50, 57>>}

\* 00, 07, 23 and 00, 32, 59
HourTexts == {<<48, 48>>, <<48, 55>>, <<50, 51>>}

MinuteTexts == {<<48, 48>>, <<51, 50>>, <<53, 57>>}

\* nothing, .5 and .123456789
FractionTexts == {<<>>, <<46, 53>>, <<46, 49, 50, 51, 52, 53, 54, 55, 56, 57>>}

\* 07:32:00 and the like
TimeTexts ==
    {h \o <<58>> \o m \o <<58>> \o sec \o f :
        h \in HourTexts, m \in MinuteTexts, sec \in {<<48, 48>>, <<53, 57>>},
        f \in FractionTexts}

\* nothing, Z, z, and +07:32 and the like
OffsetTexts ==
    {<<>>, <<90>>, <<122>>}
        \cup {<<sign>> \o h \o <<58>> \o m :
                  sign \in {43, 45}, h \in HourTexts, m \in MinuteTexts}

InitDateTime ==
    /\ out = EmptyDict
    /\ flags = EmptyDict
    /\ header_namespace = <<>>
    /\ status = "parsing"
    /\ doc = <<>>
    /\ \E d \in DateTexts :
           \/ text = d
           \/ \E sep \in {84, SPACE}, t \in TimeTexts, o \in OffsetTexts :
                  text = d \o <<sep>> \o t \o o
    /\ sres = NotParsed
    /\ nested_dict = EmptyDict
    /\ local_flags = EmptyDict
    /\ inl_status = "none"
    /\ inl_msg = ""
    /\ pairs = <<>>
    /\ position = 0
    /\ lpc = "none"

SpecDateTime == InitDateTime /\ [][NextString]_vars

(***************************************************************************)
(* What the properties speak of.  These read the state; none is used by    *)
(* the actions.                                                            *)
(***************************************************************************)
IsPrefix(p, k) == Len(p) <= Len(k) /\ SubSeq(k, 1, Len(p)) = p

IsStrictPrefix(p, k) == Len(p) < Len(k) /\ SubSeq(k, 1, Len(p)) = p

\* the value a key path leads to from value v, entering the last element of
\* every list met before a key is taken; NoValue when it leads nowhere
RECURSIVE Resolve(_, _)
Resolve(v, key) ==
    IF Len(key) = 0
    THEN v
    ELSE LET t == IF v.type = "list"
                  THEN IF Len(v.elems) = 0 THEN NoValue ELSE Last(v.elems)
                  ELSE v
         IN  IF t.type = "dict" /\ key[1] \in DOMAIN t.items
             THEN Resolve(t.items[key[1]], Tail(key))
             ELSE NoValue

\* the value the document tree holds at an absolute key
ValueAt(tree, key) == Resolve(Dict(tree), key)

\* the flags held at exactly this key path: <<plain, recursive>>
RECURSIVE FlagsAt(_, _)
FlagsAt(cont, key) ==
    IF key[1] \notin DOMAIN cont
    THEN <<{}, {}>>
    ELSE IF Len(key) = 1
         THEN <<cont[key[1]].flags, cont[key[1]].recursive_flags>>
         ELSE FlagsAt(cont[key[1]].nested, Tail(key))

\* the key path carries the flag itself, or a strict prefix of it carries it recursively
Marked(fl, key, flag) ==
    \/ flag \in FlagsAt(fl, key)[1] \cup FlagsAt(fl, key)[2]
    \/ \E n \in 1..(Len(key) - 1) : flag \in FlagsAt(fl, SubSeq(key, 1, n))[2]

\* every value of the old tree is still in the new one: a table may have gained
\* keys and a list elements, nothing else differs
RECURSIVE Kept(_, _)
Kept(u, v) ==
    /\ u.type = v.type
    /\ u.type = "int" => u.val = v.val
    /\ u.type = "dict" =>
          \A k \in DOMAIN u.items : k \in DOMAIN v.items /\ Kept(u.items[k], v.items[k])
    /\ u.type = "list" =>
          /\ Len(u.elems) <= Len(v.elems)
          /\ \A i \in 1..Len(u.elems) : Kept(u.elems[i], v.elems[i])

\* the step consumes a statement of this rule
Consumes(rule) == doc' # doc /\ Last(doc').rule = rule

\* the absolute key a statement names under a namespace
Target(ns, stmt) == IF stmt.rule = "key_value" THEN ns \o stmt.key ELSE stmt.key

\* the active namespace when the i-th statement is read: the key of the last header before it
RECURSIVE NamespaceAt(_)
NamespaceAt(i) ==
    IF i <= 1
    THEN <<>>
    ELSE IF doc[i - 1].rule \in {"create_dict", "create_list"}
         THEN doc[i - 1].key
         ELSE NamespaceAt(i - 1)

Failed == status = "TOMLDecodeError"

(***************************************************************************)
(* C1: a key-value statement whose absolute key already exists in the      *)
(* table it resolves to fails with the format error, whatever the types    *)
(* of the old and the new value; and no statement replaces a value the     *)
(* document tree already holds.                                            *)
(***************************************************************************)
C1_DuplicateKeyFails ==
    [][ /\ (Consumes("key_value")
            /\ ValueAt(out, header_namespace \o Last(doc').key).type # "none")
           => status' = "TOMLDecodeError"
        /\ Kept(Dict(out), Dict(out')) ]_vars

C1_Witness ==
    /\ Failed
    /\ Last(doc).rule = "key_value"
    /\ ValueAt(out, header_namespace \o Last(doc).key).type = "int"
    /\ Last(doc).value.type = "list"
    /\ ~Marked(flags, header_namespace \o Last(doc).key, FROZEN)

(***************************************************************************)
(* C2, as claimed: a `[key]` header fails whenever an earlier `[key]`      *)
(* header declared the same key; n successive `[[a]]` headers all succeed  *)
(* and leave at a a list of exactly n tables, one appended per header.     *)
(* The first half does not hold: `[[a]]`, `[a.b]`, `[[a]]`, `[a.b]` is     *)
(* accepted, the second `[a.b]` being a table of the new element of a.     *)
(***************************************************************************)
DeclaredAt(i, key) == doc[i].rule = "create_dict" /\ doc[i].key = key

\* no `[[P]]` header with P a strict prefix of key after the i-th statement
NoNewElementSince(i, key) ==
    \A j \in (i + 1)..Len(doc) :
        ~(doc[j].rule = "create_list" /\ IsStrictPrefix(doc[j].key, key))

\* the document so far is n >= 1 headers `[[key]]` and nothing else
OnlyListHeaders(key) ==
    /\ Len(doc) > 0
    /\ \A i \in 1..Len(doc) : doc[i].rule = "create_list" /\ doc[i].key = key

SuccessiveListHeaders ==
    \A key \in Keys :
        OnlyListHeaders(key) =>
            /\ ~Failed
            /\ ValueAt(out, key) = List([i \in 1..Len(doc) |-> Dict(EmptyDict)])

\* a `[[key]]` header that succeeds appends exactly one empty table
OneAppendedPerHeader ==
    (Consumes("create_list") /\ status' = "parsing") =>
        LET old == ValueAt(out, Last(doc').key)
            new == ValueAt(out', Last(doc').key)
        IN  /\ new.type = "list"
            /\ old.type = "list" => new.elems = Append(old.elems, Dict(EmptyDict))
            /\ old.type # "list" => new.elems = <<Dict(EmptyDict)>>

C2_AsClaimed ==
    /\ [][ (Consumes("create_dict")
            /\ \E i \in 1..Len(doc) : DeclaredAt(i, Last(doc').key))
           => status' = "TOMLDecodeError" ]_vars
    /\ [][OneAppendedPerHeader]_vars
    /\ []SuccessiveListHeaders

(***************************************************************************)
(* C2, amended: a `[key]` header fails whenever an earlier `[key]` header  *)
(* declared the same key and no `[[P]]` header with P a strict prefix of   *)
(* key came in between; n successive `[[a]]` headers all succeed and       *)
(* leave at a a list of exactly n tables, one appended per header.         *)
(***************************************************************************)
C2_RedeclaredTableFails ==
    /\ [][ (Consumes("create_dict")
            /\ \E i \in 1..Len(doc) :
                  /\ DeclaredAt(i, Last(doc').key)
                  /\ NoNewElementSince(i, Last(doc').key))
           => status' = "TOMLDecodeError" ]_vars
    /\ [][OneAppendedPerHeader]_vars
    /\ []SuccessiveListHeaders

\* `[a.b]`, some `[[P]]` with P no prefix of a.b, `[a.b]`: the last header failed
C2_Witness ==
    /\ Failed
    /\ Last(doc).rule = "create_dict"
    /\ Len(Last(doc).key) = 2
    /\ \E i \in 1..(Len(doc) - 1) :
          /\ DeclaredAt(i, Last(doc).key)
          /\ NoNewElementSince(i, Last(doc).key)
          /\ \E j \in (i + 1)..(Len(doc) - 1) : doc[j].rule = "create_list"

(***************************************************************************)
(* C3: a key-value statement with relative key k1...kn under the active    *)
(* namespace H creates the tables H.k1, H.k1.k2, ..., stores the value at  *)
(* the leaf and marks every path H.k1...ki (1 <= i <= n) EXPLICIT_NEST;    *)
(* a later `[H.k1...ki]` header fails, unless a `[[P]]` header with P a    *)
(* prefix of that path came in between.                                    *)
(***************************************************************************)
\* the i-th statement is a key-value statement that used the path K, and no
\* `[[P]]` header with P a prefix of K follows it
UsedByKeyValue(i, K) ==
    /\ doc[i].rule = "key_value"
    /\ \E n \in 1..Len(doc[i].key) : K = NamespaceAt(i) \o SubSeq(doc[i].key, 1, n)
    /\ \A j \in (i + 1)..Len(doc) :
          ~(doc[j].rule = "create_list" /\ IsPrefix(doc[j].key, K))

C3_DottedKeyNests ==
    /\ [][ (Consumes("key_value") /\ status' = "parsing") =>
              LET key == Last(doc').key
              IN  /\ ValueAt(out', header_namespace \o key) = Last(doc').value
                  /\ \A i \in 1..Len(key) :
                        LET path == header_namespace \o SubSeq(key, 1, i)
                        IN  /\ i < Len(key) => ValueAt(out', path).type = "dict"
                            /\ EXPLICIT_NEST \in FlagsAt(flags', path)[1] ]_vars
    /\ [][ (Consumes("create_dict")
            /\ \E i \in 1..Len(doc) : UsedByKeyValue(i, Last(doc').key))
           => status' = "TOMLDecodeError" ]_vars

\* `a.b = v` was read, under no header or under `[[b]]`, and a later `[a]` failed
C3_Witness ==
    /\ Failed
    /\ Last(doc).rule = "create_dict"
    /\ \E i \in 1..(Len(doc) - 1) :
          /\ UsedByKeyValue(i, Last(doc).key)
          /\ Len(doc[i].key) = 2
          /\ Len(Last(doc).key) = 1

(***************************************************************************)
(* C4: while a key path K is marked FROZEN, at K itself or recursively at  *)
(* a strict prefix of K, every key-value statement whose absolute key is   *)
(* K or lies under K and every `[table]` and `[[array]]` header naming K   *)
(* or a path under K fails with the format error, and the value at K does  *)
(* not change.                                                             *)
(***************************************************************************)
AbsKeys == Keys \cup {h \o k : h \in Keys, k \in Keys}

C4_FrozenIsImmutable ==
    [][ /\ (doc' # doc /\ Marked(flags, Target(header_namespace, Last(doc')), FROZEN))
           => status' = "TOMLDecodeError"
        /\ \A K \in AbsKeys :
              (Marked(flags, K, FROZEN) /\ Marked(flags', K, FROZEN))
                 => ValueAt(out', K) = ValueAt(out, K) ]_vars

\* a statement naming a.b failed after a was assigned an array or inline table
C4_Witness ==
    /\ Failed
    /\ Len(doc) > 1
    /\ Target(header_namespace, Last(doc)) = <<"a", "b">>
    /\ FROZEN \in FlagsAt(flags, <<"a">>)[2]
    /\ ValueAt(out, <<"a">>).type \in {"dict", "list"}

(***************************************************************************)
(* C5: a key-value statement or `[a.sub]` header whose path passes a list  *)
(* resolves into the last element of that list, and every earlier element  *)
(* of every list is left unchanged; right after a `[[a]]` header a         *)
(* key-value statement is never a duplicate, whatever the earlier          *)
(* elements hold.                                                          *)
(***************************************************************************)
\* from value u to value v, all elements of every list but its last are unchanged
RECURSIVE EarlierElementsKept(_, _)
EarlierElementsKept(u, v) ==
    /\ (u.type = "dict" /\ v.type = "dict") =>
          \A k \in DOMAIN u.items \cap DOMAIN v.items :
              EarlierElementsKept(u.items[k], v.items[k])
    /\ (u.type = "list" /\ v.type = "list" /\ Len(u.elems) > 0) =>
          /\ Len(v.elems) >= Len(u.elems)
          /\ \A i \in 1..(Len(u.elems) - 1) : v.elems[i] = u.elems[i]
          /\ IF Len(v.elems) > Len(u.elems)
             THEN v.elems[Len(u.elems)] = Last(u.elems)
             ELSE EarlierElementsKept(Last(u.elems), Last(v.elems))

\* the statement's effect is found under the last element of every list on its path
InLastElement(path, stmt) ==
    \A n \in 1..(Len(path) - 1) :
        LET P == SubSeq(path, 1, n)
            rest == SubSeq(path, n + 1, Len(path))
            old == ValueAt(out, P)
            new == ValueAt(out', P)
        IN  old.type = "list" =>
               /\ new.type = "list"
               /\ Len(new.elems) = Len(old.elems)
               /\ IF stmt.rule = "key_value"
                  THEN Resolve(Last(new.elems), rest) = stmt.value
                  ELSE Resolve(Last(new.elems), rest).type = "dict"

C5_LastElementIsTarget ==
    [][ /\ EarlierElementsKept(Dict(out), Dict(out'))
        /\ (doc' # doc /\ Last(doc').rule \in {"key_value", "create_dict"}
            /\ status' = "parsing")
           => InLastElement(Target(header_namespace, Last(doc')), Last(doc'))
        /\ (Consumes("key_value") /\ Len(doc) > 0 /\ Last(doc).rule = "create_list")
           => status' = "parsing" ]_vars

\* `[[a]]`, `b = 1`, `[[a]]`, `b = []` was read
C5_Witness ==
    /\ status = "parsing"
    /\ Len(doc) = 4
    /\ doc[1].rule = "create_list" /\ doc[3].rule = "create_list"
    /\ doc[2].rule = "key_value" /\ doc[4].rule = "key_value"
    /\ doc[2].key = doc[4].key
    /\ ValueAt(out, <<"a">>).type = "list"
    /\ Len(ValueAt(out, <<"a">>).elems) = 2
    /\ ValueAt(out, <<"a">>).elems[1] = Dict("b" :> IntVal(1))
    /\ ValueAt(out, <<"a">>).elems[2] = Dict("b" :> List(<<>>))

(***************************************************************************)
(* C6: loads ends by returning the tree or by raising TOMLDecodeError: no  *)
(* KeyError of get_or_create_nest or append_nest_to_list and no IndexError *)
(* of entering the last element of a list leaves it; and it returns, with  *)
(* the tree as built, only when no statement has failed.                   *)
(***************************************************************************)
C6_OnlyFormatErrorEscapes ==
    /\ [](status \in {"parsing", "returned", "TOMLDecodeError"})
    /\ [][status' = "returned" => (status = "parsing" /\ out' = out)]_vars

\* a `[[key]]` header met a value that is no list at a key that is not frozen
C6_Witness ==
    /\ Failed
    /\ Last(doc).rule = "create_list"
    /\ ValueAt(out, Last(doc).key).type \in {"int", "dict"}
    /\ ~Marked(flags, Last(doc).key, FROZEN)
    /\ append_nest_to_list(out, Last(doc).key).exc = "KeyError"

(***************************************************************************)
(* C7: a `[[key]]` header fails when key holds a table, a scalar or an     *)
(* array assigned by a key-value statement (an empty array and an array of *)
(* inline tables included); when it succeeds, every element of the list    *)
(* at key is a table.                                                      *)
(***************************************************************************)
\* the i-th statement is a key-value statement that assigned K, and no
\* `[[P]]` header with P a strict prefix of K follows it
AssignedAt(i, K) ==
    /\ doc[i].rule = "key_value"
    /\ NamespaceAt(i) \o doc[i].key = K
    /\ \A j \in (i + 1)..Len(doc) :
          ~(doc[j].rule = "create_list" /\ IsStrictPrefix(doc[j].key, K))

C7_ListHeaderNeedsHeaderList ==
    /\ [][ Consumes("create_list") =>
              LET K == Last(doc').key
                  old == ValueAt(out, K)
                  new == ValueAt(out', K)
              IN  /\ (\/ old.type \in {"dict", "int"}
                      \/ old.type = "list" /\ \E i \in 1..Len(doc) : AssignedAt(i, K))
                     => status' = "TOMLDecodeError"
                  /\ status' = "parsing" =>
                        /\ new.type = "list"
                        /\ \A n \in 1..Len(new.elems) : new.elems[n].type = "dict" ]_vars
    /\ [](status = "parsing" =>
             \A K \in AbsKeys : \A i \in 1..Len(doc) :
                 AssignedAt(i, K) => ValueAt(out, K) = doc[i].value)

\* `key = [{}]` was read, and a later `[[key]]` failed
C7_Witness ==
    /\ Failed
    /\ Last(doc).rule = "create_list"
    /\ ValueAt(out, Last(doc).key) = List(<<Dict(EmptyDict)>>)
    /\ \E i \in 1..(Len(doc) - 1) : AssignedAt(i, Last(doc).key)

(***************************************************************************)
(* Strings: what the claims speak of.  src is the text as parse_value      *)
(* sees it, positions count from 0.                                        *)
(***************************************************************************)
NormalisedText == crlf_to_lf(text)

\* the text opens a multiline string: three equal delimiters
OpensMultiline(src) == Len(src) >= 3 /\ src[1] = src[2] /\ src[2] = src[3]

OpensBasic(src) == Len(src) >= 1 /\ src[1] = QUOTE

\* U+0000..U+001F and U+007F
ControlChars == (0..31) \cup {127}

\* the first position from pos on whose character is not in chars, the end
\* of the text if there is none
FirstNotIn(src, pos, chars) ==
    CHOOSE i \in pos..Len(src) :
        /\ i = Len(src) \/ src[i + 1] \notin chars
        /\ \A k \in pos..(i - 1) : src[k + 1] \in chars

\* C8 (as stated): a string value that parse_value accepts holds, between
\* its delimiters, no control character other than tab and, in the two
\* multiline kinds, newline: a carriage return left after the \r\n pairs are
\* replaced is rejected in a multiline basic string as in a multiline literal one.
C8_ControlCharsRejected ==
    LET src == NormalisedText
        allowed == IF OpensMultiline(src) THEN {TAB, LF} ELSE {TAB}
    IN  sres.exc = "none" =>
            \A i \in 1..sres.pos : src[i] \notin ControlChars \ allowed

\* a multiline basic string whose body is a lone carriage return is accepted
C8_Witness ==
    /\ text = <<QUOTE, QUOTE, QUOTE, CR, QUOTE, QUOTE, QUOTE>>
    /\ sres = Returned(7, <<CR>>)

\* what the code does of C8: the carriage return in a multiline basic string
\* is the one control character that gets through
ControlCharsRejectedButCR ==
    LET src == NormalisedText
        allowed == IF OpensMultiline(src)
                   THEN IF OpensBasic(src) THEN {TAB, LF, CR} ELSE {TAB, LF}
                   ELSE {TAB}
    IN  sres.exc = "none" =>
            \A i \in 1..sres.pos : src[i] \notin ControlChars \ allowed

\* the characters that may follow a backslash: b t n f r " \ u U
DefinedEscapes == {98, 116, 110, 102, 114, QUOTE, BACKSLASH, 117, 85}

\* the escape parser at a backslash at position p of src
EscapeAsClaimed(src, p) ==
    LET j == FirstNotIn(src, p + 1, {SPACE, TAB})
        multi == parse_basic_str_escape(src, p, TRUE)
        single == parse_basic_str_escape(src, p, FALSE)
    IN  /\ (j < Len(src) /\ src[j + 1] = LF) =>
               multi = Returned(FirstNotIn(src, j + 1, {SPACE, TAB, LF}), <<>>)
        /\ (j > p + 1 /\ j < Len(src) /\ src[j + 1] # LF) =>
               multi.exc = "TOMLDecodeError"
        /\ (p + 1 < Len(src) /\ src[p + 2] \notin {SPACE, TAB, LF} \cup DefinedEscapes) =>
               multi.exc = "TOMLDecodeError" /\ single.exc = "TOMLDecodeError"
        /\ (p + 1 < Len(src) /\ src[p + 2] \in {SPACE, TAB, LF}) =>
               single.exc = "TOMLDecodeError"

\* the string value of a text whose first backslash comes after plain
\* letters only (from position `from` on) and is at position i
StringAsClaimed(src, from, i) ==
    LET j == FirstNotIn(src, i + 1, {SPACE, TAB})
        k == FirstNotIn(src, IF j < Len(src) THEN j + 1 ELSE j, {SPACE, TAB, LF})
        e == FirstNotIn(src, k, {97})
    IN  IF OpensMultiline(src)
        THEN /\ (/\ j < Len(src) /\ src[j + 1] = LF
                 /\ Slice(src, e, Len(src)) = <<QUOTE, QUOTE, QUOTE>>) =>
                    sres = Returned(Len(src), Slice(src, from, i) \o Slice(src, k, e))
             /\ (j > i + 1 /\ j < Len(src) /\ src[j + 1] # LF) =>
                    sres.exc = "TOMLDecodeError"
             /\ (i + 1 < Len(src) /\ src[i + 2] \notin {SPACE, TAB, LF} \cup DefinedEscapes) =>
                    sres.exc = "TOMLDecodeError"
        ELSE (i + 1 < Len(src) /\ src[i + 2] \in {SPACE, TAB, LF}) =>
                    sres.exc = "TOMLDecodeError"

\* C9: in a multiline basic string a backslash, spaces or tabs if any, and a
\* newline add no text and the spaces, tabs and newlines after them are
\* consumed up to the next other character; a backslash, spaces or tabs and
\* then a character that is not a newline, or a backslash and a character
\* that is neither whitespace, newline nor a defined escape, fail with
\* TOMLDecodeError; in a single-line basic string a backslash followed by
\* whitespace fails.  Stated of parse_basic_str_escape at every backslash of
\* the text, and of the value parse_value returns for a basic string whose
\* first backslash follows plain letters only.
C9_LineContinuation ==
    LET src == NormalisedText
        from == IF OpensMultiline(src) THEN 3 ELSE 1
        i == FirstNotIn(src, from, {97})
    IN  /\ \A p \in 0..(Len(src) - 1) : src[p + 1] = BACKSLASH => EscapeAsClaimed(src, p)
        /\ (/\ sres # NotParsed
            /\ OpensBasic(src)
            /\ i < Len(src)
            /\ src[i + 1] = BACKSLASH) => StringAsClaimed(src, from, i)

\* """\<newline><space>a""" has been read as "a"
C9_Witness ==
    /\ text = <<QUOTE, QUOTE, QUOTE, BACKSLASH, LF, SPACE, 97, QUOTE, QUOTE, QUOTE>>
    /\ sres = Returned(10, <<97>>)

(***************************************************************************)
(* Inline tables: what the claim speaks of.                                *)
(***************************************************************************)
\* the value a tree of tables holds at a key, NoValue if it holds none
RECURSIVE Holds(_, _)
Holds(tree, key) ==
    IF key[1] \notin DOMAIN tree
    THEN NoValue
    ELSE IF Len(key) = 1
         THEN tree[key[1]]
         ELSE IF tree[key[1]].type = "dict"
              THEN Holds(tree[key[1]].items, Tail(key))
              ELSE NoValue

IsContainer(v) == v.type \in {"dict", "list"}

\* an earlier pair of this inline table gave an array or an inline table to
\* the key or to a prefix of it
UnderContainerPair(key) ==
    \E i \in 1..Len(pairs) : IsContainer(pairs[i].value) /\ IsPrefix(pairs[i].key, key)

\* the tracker of the inline table holds what its own pairs froze, nothing else
LocalFlagsOfOwnPairs ==
    inl_status = "open" =>
        \A key \in InlineKeys : is_(local_flags, key, FROZEN) <=> UnderContainerPair(key)

\* a step that reads one more pair
InlinePairAsClaimed ==
    LET new == Last(pairs')
    IN  pairs' # pairs =>
            /\ UnderContainerPair(new.key) => inl_status' = "TOMLDecodeError"
            /\ Holds(nested_dict, new.key) # NoValue =>
                   /\ inl_status' = "TOMLDecodeError"
                   /\ ~UnderContainerPair(new.key) => inl_msg' = "Duplicate inline table key"
            /\ (/\ \A i \in 1..Len(pairs) : /\ ~IsPrefix(pairs[i].key, new.key)
                                            /\ ~IsPrefix(new.key, pairs[i].key)
                /\ new.c \in {"}", ","}) =>
                   /\ inl_status' = IF new.c = "}" THEN "returned" ELSE "open"
                   /\ Holds(nested_dict', new.key) = new.value
                   /\ \A i \in 1..Len(pairs) : Holds(nested_dict', pairs[i].key) = pairs[i].value
            /\ flags' = flags

\* C10: in one inline table, a pair whose key is, or extends, a key that an
\* earlier pair of the same inline table gave an array or an inline table
\* fails with TOMLDecodeError; a pair whose key already holds a value fails,
\* as a duplicate if no such container is in the way; a pair whose key
\* neither extends nor is extended by the key of an earlier pair (it may
\* share tables made by dotted keys with them) is stored and the earlier
\* values stay; the flags the inline table checks are those its own pairs
\* set, whatever State.flags holds, and State.flags is not written.
C10_InlineTableOwnFlags == [](LocalFlagsOfOwnPairs) /\ [][InlinePairAsClaimed]_vars

\* {a = {x = 1}, a.b = 1 ...: the second pair has failed on the frozen a
C10_Witness ==
    /\ Len(pairs) = 2
    /\ pairs[1] = Pair(<<"a">>, Dict("x" :> IntVal(1)), ",")
    /\ pairs[2].key = <<"a", "b">>
    /\ pairs[2].value = IntVal(1)
    /\ inl_status = "TOMLDecodeError"
    /\ inl_msg = "Can not mutate immutable namespace"

(***************************************************************************)
(* C11.  As stated, unset_all(key) empties the flags held at exactly key   *)
(* and leaves those of every other path, the paths that extend key         *)
(* included.  The code pops the node of key with its `nested` part, so the *)
(* flags of every path that extends key go with it: `[[a]]`, `[a.b]`,      *)
(* `[[a]]` leaves a.b without its EXPLICIT_NEST.                           *)
(***************************************************************************)
\* the key paths the flags of a document of Spec can hold
FlagPaths == UNION {[1..n -> {"a", "b"}] : n \in 1..4}

NoFlags == <<{}, {}>>

\* the flags at path k after unset_all(key), were only the node of key emptied
UnsetAllAtKeyOnly ==
    \A key \in Keys :
        LET unset == unset_all(flags, key)
        IN  \A k \in FlagPaths :
                FlagsAt(unset, k) = IF k = key THEN NoFlags ELSE FlagsAt(flags, k)

\* the flags at path k after unset_all(key): gone at key and at every path
\* that extends key, as they were at every other path
UnsetAllDropsSubtree ==
    \A key \in Keys :
        LET unset == unset_all(flags, key)
        IN  \A k \in FlagPaths :
                FlagsAt(unset, k) = IF IsPrefix(key, k) THEN NoFlags ELSE FlagsAt(flags, k)

\* a `[[key]]` header that got past the FROZEN check: unset_all, then set
ListHeaderFlags ==
    LET key == Last(doc').key
    IN  (Consumes("create_list") /\ ~is_(flags, key, FROZEN)) =>
            \A k \in FlagPaths :
                FlagsAt(flags', k) =
                    IF k = key THEN <<{EXPLICIT_NEST}, {}>>
                    ELSE IF IsPrefix(key, k) THEN NoFlags
                    ELSE FlagsAt(flags, k)

\* the same with the paths that extend key left as they were
ListHeaderFlagsAtKeyOnly ==
    LET key == Last(doc').key
    IN  (Consumes("create_list") /\ ~is_(flags, key, FROZEN)) =>
            \A k \in FlagPaths :
                FlagsAt(flags', k) =
                    IF k = key THEN <<{EXPLICIT_NEST}, {}>> ELSE FlagsAt(flags, k)

\* after a `[[key]]` header key is EXPLICIT_NEST, and a `[key]` header next fails
TableHeaderAfterListHeaderFails ==
    /\ [](status = "parsing" /\ Len(doc) > 0 /\ Last(doc).rule = "create_list"
             => is_(flags, Last(doc).key, EXPLICIT_NEST))
    /\ [][ (/\ Len(doc) > 0
            /\ Last(doc).rule = "create_list"
            /\ Consumes("create_dict")
            /\ Last(doc').key = Last(doc).key) => status' = "TOMLDecodeError" ]_vars

\* C11 as stated: unset_all(key) removes the plain and the recursive flags
\* held at exactly key and leaves the flags of every other key path as they
\* were, those of the paths that extend key included; after the set that
\* follows it in a `[[key]]` header key is EXPLICIT_NEST and `[key]` fails.
C11_AsClaimed ==
    /\ []UnsetAllAtKeyOnly
    /\ [][ListHeaderFlagsAtKeyOnly]_vars
    /\ TableHeaderAfterListHeaderFails

\* C11 (corrected): unset_all(key) removes the plain and the recursive flags
\* held at key and at every key path that extends key, and leaves the flags
\* of every other key path as they were; after the set that follows it in a
\* `[[key]]` header key holds EXPLICIT_NEST alone and a `[key]` header fails.
C11_UnsetAllDropsSubtree ==
    /\ []UnsetAllDropsSubtree
    /\ [][ListHeaderFlags]_vars
    /\ TableHeaderAfterListHeaderFails

\* `[[a]]`, `[a.b]`, `[[a]]` was read: a.b holds no flag any more
C11_Witness ==
    /\ doc = <<Stmt("create_list", <<"a">>, NoValue), Stmt("create_dict", <<"a", "b">>, NoValue),
               Stmt("create_list", <<"a">>, NoValue)>>
    /\ status = "parsing"
    /\ FlagsAt(flags, <<"a">>) = <<{EXPLICIT_NEST}, {}>>
    /\ FlagsAt(flags, <<"a", "b">>) = NoFlags

(***************************************************************************)
(* C12.  What the claim speaks of: how loads ends, and the position in     *)
(* each of its loops.  An iteration of an element loop is one call of the  *)
(* parser of the element (parse_value in parse_array, parse_key_value_pair *)
(* in parse_inline_table, parse_key_part in parse_key, a character or an   *)
(* escape in parse_string) and the separators skipped after it.            *)
(***************************************************************************)
\* loads is running, has returned the tree or has raised the format error
EndsAsClaimed == status \in {"parsing", "returned", "TOMLDecodeError"}

\* a step of the statement loop that does not stop the parse leaves loads at a
\* greater position
StatementLoopAdvances == status' = "parsing" => position' > position

\* the position never passes the end of the text
PositionInText == position \in 0..Len(loads_src)

\* the skipping loops, started at p, end at a position of the text not before p
SkipLoopsAdvance(src, p) ==
    /\ \A chars \in {TOML_WS, TOML_WS_AND_NEWLINE, BARE_KEY_CHARS} :
           skip_chars(src, p, chars) \in p..Len(src)
    /\ LET r == skip_until(src, p, LF, ILLEGAL_COMMENT_CHARS, FALSE)
       IN  r.exc = "none" => r.pos \in p..Len(src)
    /\ LET r == skip_comments_and_array_ws(src, p)
       IN  r.exc = "none" => r.pos \in p..Len(src)

\* the parsers of the elements, started at p, return at a position of the text
\* after p: a value, a key, a key/value pair
ElementLoopsAdvance(src, p) ==
    /\ LET r == parse_value(src, p)
       IN  r.exc = "none" => r.pos \in (p + 1)..Len(src)
    /\ LET r == parse_key(src, p)
       IN  r.exc = "none" => r.pos \in (p + 1)..Len(src)
    /\ LET r == parse_key_value_pair(src, p)
       IN  r.exc = "none" => r.pos \in (p + 1)..Len(src)

InnerLoopsAdvance ==
    LET src == loads_src
    IN  \A p \in 0..Len(src) : SkipLoopsAdvance(src, p) /\ ElementLoopsAdvance(src, p)

(***************************************************************************)
(* C12, as claimed: for every text loads terminates, returning the tree at *)
(* the end of the text or raising the format error; every iteration of the *)
(* statement loop that does not stop the parse strictly increases the      *)
(* position, and so does every iteration of the inner loops.  The first    *)
(* half does not hold: on `a=2021-02-30` the ValueError of datetime's      *)
(* date leaves parse_datetime and loads as it is.                          *)
(***************************************************************************)
C12_LoadsEndsAsClaimed ==
    /\ [](EndsAsClaimed /\ PositionInText /\ InnerLoopsAdvance)
    /\ [][StatementLoopAdvances]_vars

\* loads has left `a=2021-02-30` with a ValueError, the position still at 0
C12_Witness ==
    /\ text = <<97, 61, 50, 48, 50, 49, 45, 48, 50, 45, 51, 48>>
    /\ status = "ValueError"
    /\ position = 0

\* what the code does of C12: the positions advance as claimed, and loads ends
\* with the tree, the format error or the ValueError of an impossible date
C12_LoopsAdvance ==
    /\ [](status \in {"parsing", "returned", "TOMLDecodeError", "ValueError"})
    /\ [](PositionInText /\ InnerLoopsAdvance)
    /\ [][StatementLoopAdvances]_vars

(***************************************************************************)
(* C13.  What the claim speaks of, read off the matched text: the offset   *)
(* group is a sign, two digits, a colon and two digits at its end.         *)
(***************************************************************************)
MatchedText == Slice(NormalisedText, 0, sres.pos)

HasOffsetGroup(m) ==
    /\ Len(m) >= 6
    /\ m[Len(m) - 5] \in {43, 45}
    /\ m[Len(m) - 2] = 58

\* the fixed offset of the claim: the sign of the literal on the hours and on
\* the minutes
OffsetAsClaimed(m) ==
    LET sign == IF m[Len(m) - 5] = 43 THEN 1 ELSE 0 - 1
        hours == DecInt(SubSeq(m, Len(m) - 4, Len(m) - 3))
        minutes == DecInt(SubSeq(m, Len(m) - 1, Len(m)))
    IN  Tz(sign * hours * 60 + sign * minutes)

\* the tzinfo of the claim, the letters of zulu standing for UTC
TzAsClaimed(m, zulu) ==
    IF HasOffsetGroup(m)
    THEN OffsetAsClaimed(m)
    ELSE IF Contains(m, zulu) THEN Tz(0) ELSE NoTz

\* parse_value has returned a datetime: the match had a time-of-day group
ReturnedDateTime == sres.exc = "none" /\ sres.value.type = "datetime"

(***************************************************************************)
(* C13, as claimed: of a matched date-time literal with a time of day, the *)
(* result carries the fixed offset of the offset group, its sign applied   *)
(* to the hour and to the minute; without an offset group and with the     *)
(* literal Z or z in the matched text it is in UTC; with neither it is a   *)
(* naive local datetime.  It does not hold of z: parse_datetime looks for  *)
(* "Z" alone and returns 1979-05-27T07:32:00z as a naive datetime.         *)
(***************************************************************************)
C13_OffsetAsClaimed ==
    ReturnedDateTime => sres.value.tzinfo = TzAsClaimed(MatchedText, {90, 122})

\* 1979-05-27T07:32:00z is matched whole and returned without a tzinfo
C13_Witness ==
    /\ text = <<49, 57, 55, 57, 45, 48, 53, 45, 50, 55, 84,
                48, 55, 58, 51, 50, 58, 48, 48, 122>>
    /\ sres.exc = "none"
    /\ sres.pos = 20
    /\ sres.value.type = "datetime"
    /\ sres.value.tzinfo = NoTz

\* what the code does of C13: the same with the capital Z alone standing for UTC
C13_OffsetButLowercaseZ ==
    ReturnedDateTime => sres.value.tzinfo = TzAsClaimed(MatchedText, {90})

====
